---- MODULE Spec2Model ----
(***************************************************************************)
(* Folder-structure navigator: the traversal-and-filter engine in its two  *)
(* execution modes (eager StructureGenerator, streaming                    *)
(* StreamingGenerator), the gitignore resolver, the glob matcher, the sort *)
(* engine and the tree formatter, driven by the mainGenerate command.      *)
(*                                                                         *)
(* Strings are sequences of one-character strings, a path is the node of   *)
(* the file system it names (PathStr gives its text), and the file system  *)
(* is a finite tree of nodes 0..fs.n whose node 0 is "/".                  *)
(***************************************************************************)
EXTENDS Integers, Sequences, FiniteSets, TLC

\* ------------------------------------------------------------------
\* Bounds of the model
\* ------------------------------------------------------------------

\* nodes of the shape family are 0..NumNodes (0 is "/", 1 the traversal root)
NumNodes == 4
\* cfg.maxDepth ranges over 0..MaxDepthCfg
MaxDepthCfg == 2
\* cfg.compressionThreshold ranges over 0..MaxThreshold
MaxThreshold == 1
\* file sizes and modification times range over 0..MaxStat
MaxStat == 2

\* how many returned generate calls a caller keeps before it stops calling
MaxCalls == 1

\* Date.now() ranges over 0..MaxTime
MaxTime == 3

\* paths and patterns handed to matchesPattern have at most MaxGlobLen characters
MaxGlobLen == 3

\* the widest directory holds MaxHundreds * ProgressEvery + 1 entries
MaxHundreds == 2

\* ------------------------------------------------------------------
\* Program constants
\* ------------------------------------------------------------------

\* a progress event every ProgressEvery processed items (streaming)
ProgressEvery == 100

\* AdvancedCache.defaultTTL, in milliseconds
DefaultTTL == 300000

\* AdvancedCache.set runs cleanup whenever the size is a multiple of this
CleanupEvery == 40

\* the value of an optional numeric field that is absent (undefined)
Undefined == -1

\* ------------------------------------------------------------------
\* Characters and strings
\* ------------------------------------------------------------------

Digits == <<"0", "1", "2", "3", "4", "5", "6", "7", "8", "9">>

IsDigit(c) == \E i \in 1..10 : Digits[i] = c

DigitVal(c) == (CHOOSE i \in 1..10 : Digits[i] = c) - 1

\* String.prototype.toLowerCase on one character of the model's alphabet
ToLowerChar(c) ==
    CASE c = "A" -> "a" [] c = "B" -> "b" [] c = "D" -> "d" [] c = "J" -> "j"
      [] c = "M" -> "m" [] c = "S" -> "s" [] OTHER -> c

ToLowerCase(s) == [i \in 1..Len(s) |-> ToLowerChar(s[i])]

\* the decimal text of a natural number below 100
DecChars(k) == IF k < 10 THEN <<Digits[k + 1]>>
               ELSE <<Digits[(k \div 10) + 1], Digits[(k % 10) + 1]>>

RECURSIVE DigitRunLen(_)
DigitRunLen(s) ==
    IF s = <<>> \/ ~IsDigit(Head(s)) THEN 0 ELSE 1 + DigitRunLen(Tail(s))

RECURSIVE NumValue(_, _)
NumValue(s, acc) ==
    IF s = <<>> THEN acc ELSE NumValue(Tail(s), acc * 10 + DigitVal(Head(s)))

\* primary collation weight of a character: punctuation, then digits, then
\* letters in alphabetical order with case folded
Letters == <<"a", "b", "c", "d", "e", "f", "g", "h", "i", "j", "k", "l", "m",
             "n", "o", "p", "q", "r", "s", "t", "u", "v", "w", "x", "y", "z">>

CharRank(c) ==
    LET l == ToLowerChar(c) IN
    IF \E i \in 1..26 : Letters[i] = l
    THEN 20 + (CHOOSE i \in 1..26 : Letters[i] = l)
    ELSE IF IsDigit(c) THEN 10 + DigitVal(c)
    ELSE 1

\* primary level of localeCompare(.., undefined, {numeric: true}): digit runs
\* compare by value, everything else by primary weight
RECURSIVE PrimaryCompare(_, _)
PrimaryCompare(a, b) ==
    IF a = <<>> /\ b = <<>> THEN 0
    ELSE IF a = <<>> THEN -1
    ELSE IF b = <<>> THEN 1
    ELSE IF IsDigit(Head(a)) /\ IsDigit(Head(b))
    THEN LET la == DigitRunLen(a)
             lb == DigitRunLen(b)
             va == NumValue(SubSeq(a, 1, la), 0)
             vb == NumValue(SubSeq(b, 1, lb), 0)
         IN IF va < vb THEN -1
            ELSE IF va > vb THEN 1
            ELSE PrimaryCompare(SubSeq(a, la + 1, Len(a)), SubSeq(b, lb + 1, Len(b)))
    ELSE IF CharRank(Head(a)) < CharRank(Head(b)) THEN -1
    ELSE IF CharRank(Head(a)) > CharRank(Head(b)) THEN 1
    ELSE PrimaryCompare(Tail(a), Tail(b))

\* tertiary level: on equal primary keys a lower-case letter sorts before its
\* upper-case form, first difference decides
RECURSIVE CaseCompare(_, _)
CaseCompare(a, b) ==
    IF a = <<>> \/ b = <<>> THEN 0
    ELSE IF Head(a) = Head(b) THEN CaseCompare(Tail(a), Tail(b))
    ELSE IF ToLowerChar(Head(a)) = Head(a) THEN -1
    ELSE 1

\* a.localeCompare(b, undefined, { numeric: true })
LocaleCompare(a, b) ==
    LET p == PrimaryCompare(a, b) IN IF p # 0 THEN p ELSE CaseCompare(a, b)

\* String.prototype.trim
RECURSIVE TrimLeft(_)
TrimLeft(s) == IF s # <<>> /\ Head(s) = " " THEN TrimLeft(Tail(s)) ELSE s

RECURSIVE TrimRight(_)
TrimRight(s) ==
    IF s # <<>> /\ s[Len(s)] = " " THEN TrimRight(SubSeq(s, 1, Len(s) - 1)) ELSE s

Trim(s) == TrimRight(TrimLeft(s))

\* Array.prototype.includes
Includes(list, x) == \E i \in 1..Len(list) : list[i] = x

\* Array.prototype.filter
SelectSeqBy(s, keep) == SelectSeq(s, LAMBDA e : e \in keep)

\* the elements of a finite set of integers in ascending order
\* (below comes before x; comparing it with itself has TLC tabulate it once)
AscendingSeq(S) ==
    LET below == [x \in S |-> Cardinality({y \in S : y < x})]
    IN IF below = below
       THEN [k \in 1..Cardinality(S) |-> CHOOSE x \in S : below[x] = k - 1]
       ELSE <<>>

\* Array.prototype.sort, a stable sort: cmp[i][j] is what the comparator
\* returns for s[i] and s[j]; element i goes after every element that
\* compares lower and every equal one before it
SortWith(s, cmp) ==
    LET n == Len(s)
        rank == [i \in 1..n |->
                    Cardinality({j \in 1..n :
                                    cmp[j][i] < 0 \/ (cmp[j][i] = 0 /\ j < i)}) + 1]
    IN IF rank = rank      \* has TLC tabulate rank once
       THEN [k \in 1..n |-> s[CHOOSE i \in 1..n : rank[i] = k]]
       ELSE s

\* ------------------------------------------------------------------
\* The file system
\*   fs.n          nodes are 0..fs.n; node 0 is the file-system root "/"
\*   fs.parent[x]  the directory holding x (node 0 is its own parent)
\*   fs.kind[x]    "directory", "file" or "symlink" (the Dirent type)
\*   fs.name[x]    base name
\*   fs.size[x], fs.mtime[x], fs.mode[x]   what stat reports
\*   fs.readable[x] readdir (of a directory) or readFile (of a file) succeeds
\*   fs.statOk[x]  stat succeeds (false for a dangling symlink)
\*   fs.lines[x]   the lines of the file's text
\* ------------------------------------------------------------------

VARIABLES
    fs,             \* the file system the generators walk
    rootPath,       \* the directory handed to generate
    cfg,            \* the StructureConfig both generators are built with
    callbacks,      \* which optional callbacks the caller supplied
    active,         \* the generator that is running: "none", "eager", "streaming"
    stack,          \* the running generator's call stack of buildTree/streamDir
    status,         \* per generator: "none", "running", "done", "cancelled", "failed"
    processed,      \* per generator: its processed counter
    events,         \* the StreamEvents the streaming generator has yielded
    result,         \* the eager generator's tree and formatted text
    thrown,         \* per generator: the error its generate ended with
    ui,             \* per generator: the message mainGenerate showed
    log,            \* per generator: polls, file-system calls and callbacks, in order
    gitignoreCache, \* process-wide cache: directory -> rule set
    statsCache,     \* process-wide cache: path -> stats
    call,           \* the last direct call of a pure function and its result
    history,        \* the outputs of the generate calls that returned earlier
    advancedCache,  \* AdvancedCache.cache: key -> {data, ts, ttl}
    now,            \* Date.now()
    worker,         \* generateInWorker: the worker thread, its messages, the promise
    inflight        \* per concurrent caller: its getStats / getGitignoreRules call
                    \* that awaits the file system

vars == <<fs, rootPath, cfg, callbacks, active, stack, status, processed, events,
          result, thrown, ui, log, gitignoreCache, statsCache, call, history,
          advancedCache, now, worker, inflight>>

\* what no step of a generator touches
hostVars == <<history, advancedCache, now, worker, inflight>>

Modes == {"eager", "streaming"}

GitignoreName == <<".", "g", "i", "t", "i", "g", "n", "o", "r", "e">>

Nodes(f) == 0..f.n

IsDirectory(f, x) == f.kind[x] = "directory"
IsSymbolicLink(f, x) == f.kind[x] = "symlink"
IsFile(f, x) == f.kind[x] = "file"

\* path.dirname
Dirname(f, x) == f.parent[x]

\* the text of a path (path.join of the ancestors' names)
RECURSIVE PathStr(_, _)
PathStr(f, x) ==
    IF x = 0 THEN <<"/">>
    ELSE IF f.parent[x] = 0 THEN <<"/">> \o f.name[x]
    ELSE PathStr(f, f.parent[x]) \o <<"/">> \o f.name[x]

\* path.relative(from, to) for a path `to` below the directory `from`
RECURSIVE RelativeStr(_, _, _)
RelativeStr(f, from, to) ==
    IF to = from \/ to = 0 THEN <<>>
    ELSE IF f.parent[to] = from THEN f.name[to]
    ELSE RelativeStr(f, from, f.parent[to]) \o <<"/">> \o f.name[to]

\* path.basename of a path text: trailing separators are dropped, then the
\* text after the last separator is taken ("" for "/" and for "")
RECURSIVE Basename(_)
Basename(s) ==
    IF s # <<>> /\ s[Len(s)] = "/" THEN Basename(SubSeq(s, 1, Len(s) - 1))
    ELSE IF \E i \in 1..Len(s) : s[i] = "/"
    THEN Basename(SubSeq(s, (CHOOSE i \in 1..Len(s) : s[i] = "/") + 1, Len(s)))
    ELSE s

\* path.extname of a base name: from the last "." on, unless there is none or
\* it is the first character
Extname(name) ==
    LET dots == {i \in 1..Len(name) : name[i] = "."} IN
    IF dots = {} THEN <<>>
    ELSE LET last == CHOOSE i \in dots : \A j \in dots : j <= i
         IN IF last = 1 THEN <<>> ELSE SubSeq(name, last, Len(name))

\* path.extname(i.name).slice(1).toLowerCase()
LowerExtension(name) ==
    LET e == Extname(name) IN
    IF e = <<>> THEN <<>> ELSE ToLowerCase(Tail(e))

\* fs.promises.readdir: the entries of a directory in enumeration order
Readdir(f, d) == AscendingSeq({x \in Nodes(f) : x # 0 /\ f.parent[x] = d})

\* is x inside the subtree of directory d (d itself included)
RECURSIVE IsUnder(_, _, _)
IsUnder(f, x, d) ==
    IF x = d THEN TRUE
    ELSE IF x = 0 THEN FALSE
    ELSE IsUnder(f, f.parent[x], d)

\* number of directory levels between the traversal root and x
RECURSIVE DepthBelow(_, _, _)
DepthBelow(f, root, x) ==
    IF x = root \/ x = 0 THEN 0 ELSE 1 + DepthBelow(f, root, f.parent[x])

\* ------------------------------------------------------------------
\* Pattern matcher (fs-helpers matchesPattern)
\* ------------------------------------------------------------------

Separators == {"/", "\\"}

\* the regular expression the glob is rewritten to, as a token sequence:
\* "ANY" is .*  "SEG" is [^/\\]*  "ONE" is [^/\\]  and a character is itself
\* (escaped where it is a regex metacharacter)
RECURSIVE GlobToRegex(_)
GlobToRegex(p) ==
    IF p = <<>> THEN <<>>
    ELSE IF Len(p) >= 2 /\ p[1] = "*" /\ p[2] = "*"
    THEN <<"ANY">> \o GlobToRegex(SubSeq(p, 3, Len(p)))
    ELSE IF p[1] = "*" THEN <<"SEG">> \o GlobToRegex(Tail(p))
    ELSE IF p[1] = "?" THEN <<"ONE">> \o GlobToRegex(Tail(p))
    ELSE <<p[1]>> \o GlobToRegex(Tail(p))

\* new RegExp(`^${re}$`).test(s)
RECURSIVE RegExpTest(_, _)
RegExpTest(re, s) ==
    IF re = <<>> THEN s = <<>>
    ELSE LET t == Head(re)
             rest == Tail(re)
         IN CASE t = "ANY" ->
                   \E k \in 0..Len(s) : RegExpTest(rest, SubSeq(s, k + 1, Len(s)))
              [] t = "SEG" ->
                   \E k \in 0..Len(s) :
                       /\ \A j \in 1..k : s[j] \notin Separators
                       /\ RegExpTest(rest, SubSeq(s, k + 1, Len(s)))
              [] t = "ONE" ->
                   s # <<>> /\ Head(s) \notin Separators /\ RegExpTest(rest, Tail(s))
              [] OTHER ->
                   s # <<>> /\ Head(s) = t /\ RegExpTest(rest, Tail(s))

\* matchesPattern(filePath, pattern): a pattern without a separator is tested
\* against the base name. Every metacharacter is escaped, so the RegExp
\* constructor never throws and the substring fallback is never taken.
MatchesPattern(filePath, pattern) ==
    LET testPath == IF \E i \in 1..Len(pattern) : pattern[i] \in Separators
                    THEN filePath
                    ELSE Basename(filePath)
    IN RegExpTest(GlobToRegex(pattern), testPath)

\* ------------------------------------------------------------------
\* Gitignore resolver (fs-helpers getGitignoreRules, findNearestGitignore)
\* ------------------------------------------------------------------

NoRules == [found |-> FALSE, patterns |-> <<>>, base |-> 0]

\* the entry named .gitignore in directory d, or 0 (fs.promises.access succeeds
\* for an entry of any type)
GitignoreIn(f, d) ==
    LET c == {x \in Nodes(f) : x # 0 /\ f.parent[x] = d /\ f.name[x] = GitignoreName}
    IN IF c = {} THEN 0 ELSE CHOOSE x \in c : TRUE

\* findNearestGitignore(start): climbs while cur differs from its own parent,
\* so the file-system root itself is never probed. 0 stands for null.
RECURSIVE FindNearestGitignore(_, _)
FindNearestGitignore(f, cur) ==
    IF cur = Dirname(f, cur) THEN 0
    ELSE IF GitignoreIn(f, cur) # 0 THEN GitignoreIn(f, cur)
    ELSE FindNearestGitignore(f, Dirname(f, cur))

\* content.split('\n').map(trim).filter(l => l && !l.startsWith('#'))
RECURSIVE ParsePatterns(_)
ParsePatterns(lines) ==
    IF lines = <<>> THEN <<>>
    ELSE LET l == Trim(Head(lines)) IN
         IF l = <<>> \/ Head(l) = "#" THEN ParsePatterns(Tail(lines))
         ELSE <<l>> \o ParsePatterns(Tail(lines))

\* fs.promises.readFile succeeds on a readable regular file
ReadFileOk(f, x) == IsFile(f, x) /\ f.readable[x]

\* rules.isIgnored(filePath)
IsIgnored(f, rules, x) ==
    LET rel == RelativeStr(f, rules.base, x) IN
    \E i \in 1..Len(rules.patterns) : MatchesPattern(rel, rules.patterns[i])

\* a Map with key k set to v
MapSet(m, k, v) == [x \in (DOMAIN m) \cup {k} |-> IF x = k THEN v ELSE m[x]]

\* getGitignoreRules caching a rule set without its patterns
GetGitignoreRules_CachesEmpty(f, cache, dir) ==
    IF dir \in DOMAIN cache
    THEN [rules |-> cache[dir], cache |-> cache, threw |-> FALSE, ops |-> <<>>]
    ELSE LET nearest == FindNearestGitignore(f, dir) IN
         IF nearest = 0
         THEN [rules |-> NoRules, cache |-> cache, threw |-> FALSE,
               ops |-> <<<<"findNearestGitignore", dir>>>>]
         ELSE IF ~ReadFileOk(f, nearest)
         THEN [rules |-> NoRules, cache |-> cache, threw |-> TRUE,
               ops |-> <<<<"findNearestGitignore", dir>>, <<"readFile", nearest>>>>]
         ELSE LET rules == [found |-> TRUE,
                            patterns |-> ParsePatterns(f.lines[nearest]),
                            base |-> Dirname(f, nearest)]
              IN [rules |-> rules,
                  cache |-> MapSet(cache, dir, [rules EXCEPT !.patterns = <<>>]),
                  threw |-> FALSE,
                  ops |-> <<<<"findNearestGitignore", dir>>, <<"readFile", nearest>>>>]

\* getGitignoreRules(dir) against cache: the rules returned (NoRules for
\* null), the cache afterwards, whether the call threw, and the calls made
GetGitignoreRules(f, cache, dir) ==
    IF dir \in DOMAIN cache
    THEN [rules |-> cache[dir], cache |-> cache, threw |-> FALSE, ops |-> <<>>]
    ELSE LET nearest == FindNearestGitignore(f, dir) IN
         IF nearest = 0
         THEN [rules |-> NoRules, cache |-> cache, threw |-> FALSE,
               ops |-> <<<<"findNearestGitignore", dir>>>>]
         ELSE IF ~ReadFileOk(f, nearest)
         THEN [rules |-> NoRules, cache |-> cache, threw |-> TRUE,
               ops |-> <<<<"findNearestGitignore", dir>>, <<"readFile", nearest>>>>]
         ELSE LET rules == [found |-> TRUE,
                            patterns |-> ParsePatterns(f.lines[nearest]),
                            base |-> Dirname(f, nearest)]
              IN [rules |-> rules, cache |-> MapSet(cache, dir, rules),
                  threw |-> FALSE,
                  ops |-> <<<<"findNearestGitignore", dir>>, <<"readFile", nearest>>>>]

\* ------------------------------------------------------------------
\* Stats with caching (fs-helpers getStats, permissionsString)
\* ------------------------------------------------------------------

NoStats == [ok |-> FALSE, size |-> Undefined, mode |-> 0, mtime |-> Undefined]

\* getStats(p) against cache: the stats (NoStats for null), the cache
\* afterwards and the calls made
GetStats(f, cache, p) ==
    IF p \in DOMAIN cache
    THEN [stats |-> cache[p], cache |-> cache, ops |-> <<>>]
    ELSE IF f.statOk[p]
    THEN LET st == [ok |-> TRUE, size |-> f.size[p], mode |-> f.mode[p],
                    mtime |-> f.mtime[p]]
         IN [stats |-> st, cache |-> MapSet(cache, p, st), ops |-> <<<<"stat", p>>>>]
    ELSE [stats |-> NoStats, cache |-> cache, ops |-> <<<<"stat", p>>>>]

RECURSIVE Pow2(_)
Pow2(i) == IF i = 0 THEN 1 ELSE 2 * Pow2(i - 1)

\* permissionsString(mode): bit 8 down to bit 0 as rwxrwxrwx
PermissionsString(mode) ==
    [k \in 1..9 |->
        LET i == 9 - k IN
        IF (mode \div Pow2(i)) % 2 = 1 THEN <<"r", "w", "x">>[((8 - i) % 3) + 1]
        ELSE "-"]

\* ------------------------------------------------------------------
\* Configuration (StructureConfig with every default filled in)
\* ------------------------------------------------------------------

\* an optional list option: null, or a list
NullList == [given |-> FALSE, list |-> <<>>]
ListOf(l) == [given |-> TRUE, list |-> l]

\* the constructor's defaults (generator.ts, streaming-generator.ts) for the
\* options the traversal reads; compressionThreshold is scaled to the model
DefaultConfig ==
    [includeHidden |-> FALSE, extensionFilter |-> NullList,
     excludeFolders |-> NullList, excludePatterns |-> NullList,
     maxDepth |-> 0, respectGitignore |-> TRUE,
     includeSize |-> FALSE, includePermissions |-> FALSE,
     includeModifiedDate |-> FALSE, sortBy |-> "name", outputFormat |-> "tree",
     compressLargeDirs |-> TRUE, compressionThreshold |-> MaxThreshold]

AnyMetadata(c) == c.includeSize \/ c.includePermissions \/ c.includeModifiedDate

\* the depth test one level late
DepthLimited_OneLate(c, depth) == c.maxDepth # 0 /\ depth > c.maxDepth

\* this.cfg.maxDepth && depth >= this.cfg.maxDepth
DepthLimited(c, depth) == c.maxDepth # 0 /\ depth >= c.maxDepth

\* ------------------------------------------------------------------
\* Filter pipeline (filterAndSort of both generators: the same code twice)
\* ------------------------------------------------------------------

\* hidden files
HiddenFilter(f, c, items) ==
    SelectSeqBy(items, {x \in Nodes(f) :
        c.includeHidden \/ ~(f.name[x] # <<>> /\ Head(f.name[x]) = ".")})

\* folder exclusion that forgets to test isDirectory
FolderExclusion_AnyKind(f, c, items) ==
    IF c.excludeFolders.given
    THEN SelectSeqBy(items, {x \in Nodes(f) :
            ~Includes(c.excludeFolders.list, f.name[x])})
    ELSE items

\* folder exclusion list
FolderExclusion(f, c, items) ==
    IF c.excludeFolders.given
    THEN SelectSeqBy(items, {x \in Nodes(f) :
            ~(IsDirectory(f, x) /\ Includes(c.excludeFolders.list, f.name[x]))})
    ELSE items

\* extension whitelist
ExtensionWhitelist(f, c, items) ==
    IF c.extensionFilter.given /\ \E i \in 1..Len(items) : IsFile(f, items[i])
    THEN SelectSeqBy(items, {x \in Nodes(f) :
            IF IsFile(f, x)
            THEN Includes(c.extensionFilter.list, LowerExtension(f.name[x]))
            ELSE TRUE})
    ELSE items

\* glob-pattern exclusions, matched against path.join(parentPath, i.name)
PatternExclusion(f, c, items) ==
    IF c.excludePatterns.given
    THEN SelectSeqBy(items, {x \in Nodes(f) :
            ~\E i \in 1..Len(c.excludePatterns.list) :
                MatchesPattern(PathStr(f, x), c.excludePatterns.list[i])})
    ELSE items

\* .gitignore handling, given the rule set resolved for parentPath
GitignoreFilter(f, rules, items) ==
    IF rules.found
    THEN SelectSeqBy(items, {x \in Nodes(f) : ~IsIgnored(f, rules, x)})
    ELSE items

\* the comparator of filterAndSort's final sort
DirentCompare(f, c, a, b) ==
    IF c.sortBy = "name"
    THEN IF IsDirectory(f, a) /\ ~IsDirectory(f, b) THEN -1
         ELSE IF ~IsDirectory(f, a) /\ IsDirectory(f, b) THEN 1
         ELSE LocaleCompare(f.name[a], f.name[b])
    ELSE 0

FinalSort(f, c, items) ==
    SortWith(items, [i \in 1..Len(items) |-> [j \in 1..Len(items) |->
                        DirentCompare(f, c, items[i], items[j])]])

\* filterAndSort(items, parentPath): the entries kept, in order, with the
\* gitignore cache afterwards, whether resolving the rules threw, and the
\* file-system calls made
FilterAndSort(f, c, gcache, items, parentPath) ==
    LET s1 == HiddenFilter(f, c, items)
        s2 == FolderExclusion(f, c, s1)
        s3 == ExtensionWhitelist(f, c, s2)
        s4 == PatternExclusion(f, c, s3)
        g  == IF c.respectGitignore
              THEN GetGitignoreRules(f, gcache, parentPath)
              ELSE [rules |-> NoRules, cache |-> gcache, threw |-> FALSE, ops |-> <<>>]
        s5 == GitignoreFilter(f, g.rules, s4)
    IN [items |-> IF g.threw THEN <<>> ELSE FinalSort(f, c, s5),
        cache |-> g.cache, threw |-> g.threw, ops |-> g.ops]

\* ------------------------------------------------------------------
\* FileEntry
\*   size, modified: a number or Undefined; permissions: <<>> when absent;
\*   hasChildren tells whether the children field is present
\* ------------------------------------------------------------------

NoEntry == [name |-> <<>>, path |-> -1, type |-> "none", size |-> Undefined,
            permissions |-> <<>>, modified |-> Undefined,
            hasChildren |-> FALSE, children |-> <<>>]

TypeOf(f, x) ==
    IF IsDirectory(f, x) THEN "directory"
    ELSE IF IsSymbolicLink(f, x) THEN "symlink"
    ELSE "file"

\* the entry buildTree creates for the directory it was called on
DirectoryEntry(f, dir) ==
    [NoEntry EXCEPT !.name = IF f.name[dir] = <<>> THEN PathStr(f, dir) ELSE f.name[dir],
                    !.path = dir, !.type = "directory", !.hasChildren = TRUE]

\* the entry created for a directory item (children not yet set)
ItemEntry(f, x) ==
    [NoEntry EXCEPT !.name = f.name[x], !.path = x, !.type = TypeOf(f, x)]

\* buildTree's metadata block: size whenever stats exist, the others by flag
EagerMetadata(c, e, stats) ==
    IF AnyMetadata(c) /\ stats.ok
    THEN [e EXCEPT !.size = stats.size,
                   !.permissions = IF c.includePermissions
                                   THEN PermissionsString(stats.mode) ELSE @,
                   !.modified = IF c.includeModifiedDate THEN stats.mtime ELSE @]
    ELSE e

\* StreamingGenerator.addMetadata: each field by its own flag
StreamingMetadata(c, e, stats) ==
    IF AnyMetadata(c) /\ stats.ok
    THEN [e EXCEPT !.size = IF c.includeSize THEN stats.size ELSE @,
                   !.permissions = IF c.includePermissions
                                   THEN PermissionsString(stats.mode) ELSE @,
                   !.modified = IF c.includeModifiedDate THEN stats.mtime ELSE @]
    ELSE e

\* ------------------------------------------------------------------
\* Sort engine (StructureGenerator.sortEntries)
\* ------------------------------------------------------------------

\* a.type.localeCompare(b.type) on the three kind strings
TypeRank(t) == CASE t = "directory" -> 1 [] t = "file" -> 2 [] OTHER -> 3

OrZero(v) == IF v = Undefined THEN 0 ELSE v

\* the comparator with the size and date differences taken the other way
EntryCompare_Ascending(c, a, b) ==
    IF a.type = "directory" /\ b.type # "directory" THEN -1
    ELSE IF a.type # "directory" /\ b.type = "directory" THEN 1
    ELSE CASE c.sortBy = "size" -> OrZero(a.size) - OrZero(b.size)
           [] c.sortBy = "modified" -> OrZero(a.modified) - OrZero(b.modified)
           [] c.sortBy = "type" -> TypeRank(a.type) - TypeRank(b.type)
           [] OTHER -> LocaleCompare(a.name, b.name)

\* the comparator of sortEntries
EntryCompare(c, a, b) ==
    IF a.type = "directory" /\ b.type # "directory" THEN -1
    ELSE IF a.type # "directory" /\ b.type = "directory" THEN 1
    ELSE CASE c.sortBy = "size" -> OrZero(b.size) - OrZero(a.size)
           [] c.sortBy = "modified" -> OrZero(b.modified) - OrZero(a.modified)
           [] c.sortBy = "type" -> TypeRank(a.type) - TypeRank(b.type)
           [] OTHER -> LocaleCompare(a.name, b.name)

RECURSIVE SortEntries(_, _)
SortEntries(c, entries) ==
    LET sorted == SortWith(entries, [i \in 1..Len(entries) |-> [j \in 1..Len(entries) |->
                                        EntryCompare(c, entries[i], entries[j])]])
    IN [i \in 1..Len(sorted) |->
          IF sorted[i].hasChildren
          THEN [sorted[i] EXCEPT !.children = SortEntries(c, @)]
          ELSE sorted[i]]

\* ------------------------------------------------------------------
\* Tree format (formatting formatTree). The text is a sequence of lines; a
\* line's path field names the entry it was rendered for and is not text.
\* ------------------------------------------------------------------

\* does formatTree collapse this child
Collapses_AtThreshold(c, child) ==
    c.compressLargeDirs /\ Len(child.children) >= c.compressionThreshold

\* cfg.compressLargeDirs && child.children.length > cfg.compressionThreshold
Collapses(c, child) ==
    c.compressLargeDirs /\ Len(child.children) > c.compressionThreshold

EntryLine(c, child, prefix, isLast) ==
    [kind |-> "entry", prefix |-> prefix, isLast |-> isLast,
     name |-> child.name, path |-> child.path,
     size |-> IF c.includeSize THEN child.size ELSE Undefined,
     permissions |-> IF c.includePermissions THEN child.permissions ELSE <<>>,
     modified |-> IF c.includeModifiedDate THEN child.modified ELSE Undefined]

CollapsedLine(child, prefix) ==
    [kind |-> "collapsed", prefix |-> prefix, count |-> Len(child.children),
     path |-> child.path]

RECURSIVE FormatChildren(_, _, _, _)
FormatChildren(c, children, i, prefix) ==
    IF i > Len(children) THEN <<>>
    ELSE LET child == children[i]
             isLast == i = Len(children)
             subPrefix == Append(prefix, IF isLast THEN "    " ELSE "|   ")
             below == IF Len(child.children) = 0 THEN <<>>
                      ELSE IF Collapses(c, child)
                      THEN <<CollapsedLine(child, subPrefix)>>
                      ELSE FormatChildren(c, child.children, 1, subPrefix)
         IN <<EntryLine(c, child, prefix, isLast)>> \o below
            \o FormatChildren(c, children, i + 1, prefix)

\* formatTree(root, cfg, '', genTime)
FormatTree(c, entry) ==
    <<[kind |-> "root", name |-> entry.name], [kind |-> "time"], [kind |-> "rule"]>>
    \o FormatChildren(c, entry.children, 1, <<>>)

\* StructureGenerator.formatOutput for the formats modelled
FormatOutput(c, root) == FormatTree(c, root)

\* ------------------------------------------------------------------
\* Errors and the caller (commands/generate mainGenerate)
\* ------------------------------------------------------------------

NoError == [class |-> "none", message |-> "none"]

\* throw new Error('Operation cancelled')
CancelledError == [class |-> "Error", message |-> "Operation cancelled"]

\* the rejection of fs.promises.readdir / readFile
IoError == [class |-> "Error", message |-> "EACCES"]

\* mainGenerate's catch block: which message the user sees for error e
CatchMessage(e) ==
    IF e.class = "CancellationError" THEN "cancelled" ELSE "generation failed"

\* isValidDirectory(p)
IsValidDirectory(f, p) == p \in Nodes(f) /\ f.statOk[p] /\ IsDirectory(f, p)

\* ------------------------------------------------------------------
\* Call stack. A frame is one activation of buildTree / streamDir:
\*   dir, depth, prefix  its arguments (prefix: streaming only)
\*   phase    "enter" before the directory is read, "loop" inside the for loop
\*   items, i the filtered entries and the loop index (from 1)
\*   entry    buildTree's entry, children pushed so far included
\*   pending  buildTree's child that waits for the recursive call's children
\* The running activation is the last frame.
\* ------------------------------------------------------------------

NewFrame(f, dir, depth, prefix) ==
    [dir |-> dir, depth |-> depth, prefix |-> prefix, phase |-> "enter",
     items |-> <<>>, i |-> 1, entry |-> DirectoryEntry(f, dir), pending |-> NoEntry]

Top == stack[Len(stack)]

Running == active # "none" /\ status[active] = "running"

NoResult == [returned |-> FALSE, tree |-> NoEntry, text |-> <<>>]

\* the stack after the running activation returns `kids` as its children:
\* buildTree's caller stores them in the pending child and pushes it
StackAfterReturn(m, stk, kids) ==
    IF Len(stk) = 1 THEN <<>>
    ELSE LET caller == stk[Len(stk) - 1]
             resumed ==
               IF m = "eager"
               THEN [caller EXCEPT
                       !.entry.children =
                           Append(@, [caller.pending EXCEPT !.children = kids,
                                                            !.hasChildren = TRUE]),
                       !.pending = NoEntry,
                       !.i = @ + 1]
               ELSE [caller EXCEPT !.i = @ + 1]
         IN Append(SubSeq(stk, 1, Len(stk) - 2), resumed)

\* CloseEvents with the directory-close forgotten
CloseEvents_Forgotten(m, stk) == <<>>

\* the events yielded when a streamDir activation returns: its caller's
\* directory-close (the root activation's caller is generate: nothing)
CloseEvents(m, stk) ==
    IF m = "streaming" /\ Len(stk) > 1 THEN <<[kind |-> "directory-close"]>> ELSE <<>>

\* the eager result once the root activation returns its entry
ResultAfterReturn(m, stk, res, kids) ==
    IF m = "eager" /\ Len(stk) = 1
    THEN [res EXCEPT !.tree = [stk[1].entry EXCEPT !.children = kids]]
    ELSE res

\* ------------------------------------------------------------------
\* mainGenerate starts a generator on rootPath
\* ------------------------------------------------------------------

StartEvents(m) ==
    IF m = "streaming" THEN <<[kind |-> "start", root |-> rootPath]>> ELSE <<>>

\* what is left of an earlier command when the next one starts: its record if
\* it completed (its output was saved), nothing otherwise
Kept(m, rec, none) ==
    [o \in Modes |-> IF o # m /\ status[o] = "done" THEN rec[o] ELSE none]

Start(m) ==
    /\ active = "none"
    /\ status[m] = "none"
    /\ IF IsValidDirectory(fs, rootPath)
       THEN /\ active' = m
            /\ status' = [Kept(m, status, "none") EXCEPT ![m] = "running"]
            /\ stack' = <<NewFrame(fs, rootPath, 0, <<>>)>>
            /\ events' = IF m = "streaming" THEN StartEvents(m)
                         ELSE IF status["streaming"] = "done" THEN events ELSE <<>>
            /\ ui' = Kept(m, ui, "none")
       ELSE /\ status' = [Kept(m, status, "none") EXCEPT ![m] = "rejected"]
            /\ ui' = [Kept(m, ui, "none") EXCEPT ![m] = "invalid directory"]
            /\ events' = IF status["streaming"] = "done" THEN events ELSE <<>>
            /\ UNCHANGED <<active, stack>>
    /\ log' = Kept(m, log, <<>>)
    /\ thrown' = Kept(m, thrown, NoError)
    /\ processed' = Kept(m, processed, 0)
    /\ UNCHANGED <<fs, rootPath, cfg, callbacks, result, gitignoreCache, statsCache, call>>
    /\ UNCHANGED hostVars

\* ------------------------------------------------------------------
\* buildTree / streamDir up to the for loop: cancellation poll, depth limit,
\* metadata of the directory (eager), readdir, filterAndSort
\* ------------------------------------------------------------------

\* the poll answered yes, but the answer is dropped
Cancelled_Ignored(cb, ans) == FALSE

\* if (this.isCancelled?.()): a supplied check that answers true
Cancelled(cb, ans) == cb.isCancelled /\ ans

\* what the activation does when the poll answers `ans`:
\*   kind "throw" (err), "return" (early return) or "loop" (frame to go on with)
EnterOutcome(m, f, c, cb, fr, gcache, scache, ans) ==
    LET poll == IF cb.isCancelled THEN <<<<"poll", fr.dir, ans>>>> ELSE <<>>
        st == IF m = "eager" /\ AnyMetadata(c)
              THEN GetStats(f, scache, fr.dir)
              ELSE [stats |-> NoStats, cache |-> scache, ops |-> <<>>]
        readOk == IsDirectory(f, fr.dir) /\ f.readable[fr.dir]
        fl == FilterAndSort(f, c, gcache, Readdir(f, fr.dir), fr.dir)
        rd == <<<<"readdir", fr.dir, "withFileTypes">>>>
    IN IF Cancelled(cb, ans)
       THEN [kind |-> "throw", err |-> CancelledError, frame |-> fr,
             gcache |-> gcache, scache |-> scache, ops |-> poll]
       ELSE IF DepthLimited(c, fr.depth)
       THEN [kind |-> "return", err |-> NoError, frame |-> fr,
             gcache |-> gcache, scache |-> scache, ops |-> poll]
       ELSE IF ~readOk
       THEN [kind |-> IF m = "eager" THEN "throw" ELSE "return",
             err |-> IF m = "eager" THEN IoError ELSE NoError, frame |-> fr,
             gcache |-> gcache, scache |-> st.cache, ops |-> poll \o st.ops \o rd]
       ELSE IF fl.threw
       THEN [kind |-> "throw", err |-> IoError, frame |-> fr,
             gcache |-> fl.cache, scache |-> st.cache,
             ops |-> poll \o st.ops \o rd \o fl.ops]
       ELSE [kind |-> "loop", err |-> NoError,
             frame |-> [fr EXCEPT !.phase = "loop", !.items = fl.items, !.i = 1,
                                  !.entry = EagerMetadata(c, @, st.stats)],
             gcache |-> fl.cache, scache |-> st.cache,
             ops |-> poll \o st.ops \o rd \o fl.ops]

EnterDir ==
    /\ Running
    /\ stack # <<>>
    /\ Top.phase = "enter"
    /\ \E ans \in BOOLEAN :
        LET m == active
            o == EnterOutcome(m, fs, cfg, callbacks, Top, gitignoreCache, statsCache, ans)
        IN /\ log' = [log EXCEPT ![m] = @ \o o.ops]
           /\ gitignoreCache' = o.gcache
           /\ statsCache' = o.scache
           /\ IF o.kind = "throw"
              THEN /\ stack' = <<>>
                   /\ active' = "none"
                   /\ status' = [status EXCEPT ![m] =
                         IF o.err = CancelledError THEN "cancelled" ELSE "failed"]
                   /\ thrown' = [thrown EXCEPT ![m] = o.err]
                   /\ ui' = [ui EXCEPT ![m] = CatchMessage(o.err)]
                   /\ UNCHANGED <<events, result>>
              ELSE IF o.kind = "return"
              THEN /\ stack' = StackAfterReturn(m, stack, <<>>)
                   /\ events' = events \o CloseEvents(m, stack)
                   /\ result' = ResultAfterReturn(m, stack, result, <<>>)
                   /\ UNCHANGED <<active, status, thrown, ui>>
              ELSE /\ stack' = [stack EXCEPT ![Len(stack)] = o.frame]
                   /\ UNCHANGED <<active, status, thrown, ui, events, result>>
    /\ UNCHANGED <<fs, rootPath, cfg, callbacks, processed, call>>
    /\ UNCHANGED hostVars

\* ------------------------------------------------------------------
\* One iteration of the for loop over the filtered entries
\* ------------------------------------------------------------------

\* shouldCompressDirectory with the threshold itself counted as too many
ShouldCompressDirectory_AtThreshold(f, c, dir) ==
    IF ~c.compressLargeDirs THEN FALSE
    ELSE IF ~(IsDirectory(f, dir) /\ f.readable[dir]) THEN FALSE
    ELSE Len(Readdir(f, dir)) >= c.compressionThreshold

\* StreamingGenerator.shouldCompressDirectory(dir): counts the raw listing
ShouldCompressDirectory(f, c, dir) ==
    IF ~c.compressLargeDirs THEN FALSE
    ELSE IF ~(IsDirectory(f, dir) /\ f.readable[dir]) THEN FALSE
    ELSE Len(Readdir(f, dir)) > c.compressionThreshold

\* the progress event and callback of the streaming loop, due when the
\* counter reaches a multiple of ProgressEvery
\* the progress test one item early
ProgressDue_OneEarly(n) == (n + 1) % ProgressEvery = 0

ProgressDue(n) == n % ProgressEvery = 0

\* the events one iteration of streamDir's loop yields for `entry`
ItemEvents(f, entry, n, prefix, isLast, compress) ==
    (IF ProgressDue(n) THEN <<[kind |-> "progress", processed |-> n]>> ELSE <<>>)
    \o <<[kind |-> IF entry.type = "directory" THEN "directory-open" ELSE "file",
          entry |-> entry, prefix |-> prefix, isLast |-> isLast]>>
    \o (IF entry.type = "directory" /\ compress
        THEN <<[kind |-> "directory-close"]>> ELSE <<>>)

\* the loop following symbolic links as if they were directories
Recurses_FollowsLinks(m, f, c, x) ==
    (IsDirectory(f, x) \/ IsSymbolicLink(f, x))
    /\ (m = "eager" \/ ~ShouldCompressDirectory(f, c, x))

\* does the loop recurse into the item
Recurses(m, f, c, x) ==
    IsDirectory(f, x) /\ (m = "eager" \/ ~ShouldCompressDirectory(f, c, x))

\* the eager callback handed the running count instead of the increment
ProgressCalls_Cumulative(m, cb, n) ==
    IF ~cb.onProgress THEN <<>>
    ELSE IF m = "eager" THEN <<<<"onProgress", n>>>>
    ELSE IF ProgressDue(n) THEN <<<<"onProgress", n>>>>
    ELSE <<>>

\* the callback invocations of one iteration
ProgressCalls(m, cb, n) ==
    IF ~cb.onProgress THEN <<>>
    ELSE IF m = "eager" THEN <<<<"onProgress", 1>>>>
    ELSE IF ProgressDue(n) THEN <<<<"onProgress", n>>>>
    ELSE <<>>

ProcessItem ==
    /\ Running
    /\ stack # <<>>
    /\ Top.phase = "loop"
    /\ Top.i <= Len(Top.items)
    /\ LET m == active
           fr == Top
           item == fr.items[fr.i]
           isLast == fr.i = Len(fr.items)
           n == processed[m] + 1
           st == IF AnyMetadata(cfg)
                 THEN GetStats(fs, statsCache, item)
                 ELSE [stats |-> NoStats, cache |-> statsCache, ops |-> <<>>]
           child == IF m = "eager"
                    THEN EagerMetadata(cfg, ItemEntry(fs, item), st.stats)
                    ELSE StreamingMetadata(cfg, ItemEntry(fs, item), st.stats)
           compress == m = "streaming" /\ IsDirectory(fs, item)
                       /\ ShouldCompressDirectory(fs, cfg, item)
           count == IF m = "streaming" /\ IsDirectory(fs, item) /\ cfg.compressLargeDirs
                    THEN <<<<"readdir", item, "names">>>> ELSE <<>>
           nextPrefix == Append(fr.prefix, IF isLast THEN "    " ELSE "|   ")
       IN /\ processed' = [processed EXCEPT ![m] = n]
          /\ log' = [log EXCEPT ![m] = @ \o ProgressCalls(m, callbacks, n) \o st.ops \o count]
          /\ statsCache' = st.cache
          /\ events' = IF m = "streaming"
                       THEN events \o ItemEvents(fs, child, n, fr.prefix, isLast, compress)
                       ELSE events
          /\ stack' =
               IF Recurses(m, fs, cfg, item)
               THEN Append([stack EXCEPT ![Len(stack)].pending =
                               IF m = "eager" THEN child ELSE NoEntry],
                           NewFrame(fs, item, fr.depth + 1,
                                    IF m = "streaming" THEN nextPrefix ELSE <<>>))
               ELSE [stack EXCEPT ![Len(stack)] =
                       [fr EXCEPT !.i = @ + 1,
                                  !.entry.children =
                                      IF m = "eager" THEN Append(@, child) ELSE @]]
    /\ UNCHANGED <<fs, rootPath, cfg, callbacks, active, status, result, thrown, ui,
                   gitignoreCache, call>>
    /\ UNCHANGED hostVars

\* ------------------------------------------------------------------
\* The loop is over: buildTree sorts and returns its entry, streamDir returns
\* ------------------------------------------------------------------

\* the children buildTree returns: the final sort (cfg.sortBy is always set)
ReturnedChildren(m, c, fr) ==
    IF m = "eager" THEN SortEntries(c, fr.entry.children) ELSE <<>>

ReturnDir ==
    /\ Running
    /\ stack # <<>>
    /\ Top.phase = "loop"
    /\ Top.i > Len(Top.items)
    /\ LET m == active
           kids == ReturnedChildren(m, cfg, Top)
       IN /\ stack' = StackAfterReturn(m, stack, kids)
          /\ events' = events \o CloseEvents(m, stack)
          /\ result' = ResultAfterReturn(m, stack, result, kids)
    /\ UNCHANGED <<fs, rootPath, cfg, callbacks, active, status, processed, thrown,
                   ui, log, gitignoreCache, statsCache, call>>
    /\ UNCHANGED hostVars

\* ------------------------------------------------------------------
\* generate completes: eager formats the tree, streaming yields end;
\* mainGenerate saves and presents the text
\* ------------------------------------------------------------------

\* EndEvents with the root counted as an item
EndEvents_RootCounted(m, n) ==
    IF m = "streaming" THEN <<[kind |-> "end", totalItems |-> n + 1]>> ELSE <<>>

EndEvents(m, n) ==
    IF m = "streaming" THEN <<[kind |-> "end", totalItems |-> n]>> ELSE <<>>

Finish ==
    /\ Running
    /\ stack = <<>>
    /\ LET m == active
       IN /\ status' = [status EXCEPT ![m] = "done"]
          /\ ui' = [ui EXCEPT ![m] = "saved"]
          /\ events' = events \o EndEvents(m, processed[m])
          /\ result' = IF m = "eager"
                       THEN [result EXCEPT !.returned = TRUE,
                                           !.text = FormatOutput(cfg, result.tree)]
                       ELSE result
    /\ active' = "none"
    /\ UNCHANGED <<fs, rootPath, cfg, callbacks, stack, processed, thrown, log,
                   gitignoreCache, statsCache, call>>
    /\ UNCHANGED hostVars

\* ------------------------------------------------------------------
\* Initial states
\* ------------------------------------------------------------------

NoCall == [fn |-> "none"]

\* the traversals that may run side by side in the extension host
Callers == {"t1", "t2"}

\* a caller with no getStats / getGitignoreRules call under way
NoLookup == [fn |-> "none", key |-> -1, phase |-> "none", value |-> NoStats]

\* everything but the inputs, as it is before the first command runs
Idle ==
    /\ active = "none"
    /\ stack = <<>>
    /\ processed = [m \in Modes |-> 0]
    /\ events = <<>>
    /\ result = NoResult
    /\ thrown = [m \in Modes |-> NoError]
    /\ ui = [m \in Modes |-> "none"]
    /\ log = [m \in Modes |-> <<>>]
    /\ gitignoreCache = <<>>
    /\ statsCache = <<>>
    /\ history = <<>>
    /\ advancedCache = <<>>
    /\ now = 0
    /\ worker = [thread |-> "none", exitCode |-> 0, delivered |-> 0, received |-> <<>>,
                 promise |-> "none", settlements |-> <<>>, cancelled |-> FALSE]
    /\ call = NoCall
    /\ inflight = [t \in Callers |-> NoLookup]

\* the name of node x in the shape family: f10, f9, f8, ... so that the
\* enumeration order, the plain text order and the numeric order all differ
SlotName(x) == <<"f">> \o DecChars(12 - x)

\* a file system from its shape: parent and kind of the nodes 2..n, and the
\* one directory (0: none) whose readdir fails
ShapeFs(n, parent, kind, unreadable) ==
    [n |-> n,
     parent |-> [x \in 0..n |-> IF x <= 1 THEN 0 ELSE parent[x]],
     kind |-> [x \in 0..n |-> IF x <= 1 THEN "directory" ELSE kind[x]],
     name |-> [x \in 0..n |-> IF x = 0 THEN <<>> ELSE IF x = 1 THEN <<"r">>
                              ELSE SlotName(x)],
     size |-> [x \in 0..n |-> x % (MaxStat + 1)],
     mtime |-> [x \in 0..n |-> (2 * x) % (MaxStat + 1)],
     mode |-> [x \in 0..n |-> IF x <= 1 \/ kind[IF x <= 1 THEN 2 ELSE x] = "directory"
                              THEN 493 ELSE 420],
     readable |-> [x \in 0..n |-> x = 0 \/ x # unreadable],
     statOk |-> [x \in 0..n |-> TRUE],
     lines |-> [x \in 0..n |-> <<>>]]

\* every tree of directories and files on the nodes 2..NumNodes below the
\* traversal root, with at most one unreadable directory
ShapeFileSystems ==
    {ShapeFs(NumNodes, p, k, u) :
        <<p, k, u>> \in
            {t \in [2..NumNodes -> 1..NumNodes] \X [2..NumNodes -> {"directory", "file"}]
                   \X (0..NumNodes) :
                /\ \A x \in 2..NumNodes :
                      /\ t[1][x] < x
                      /\ t[1][x] = 1 \/ t[2][t[1][x]] = "directory"
                /\ t[3] = 0 \/ t[3] = 1 \/ (t[3] >= 2 /\ t[2][t[3]] = "directory")}}

ShapeConfigs ==
    {[DefaultConfig EXCEPT !.maxDepth = d, !.compressLargeDirs = z[1],
                           !.compressionThreshold = z[2]] :
        d \in 0..MaxDepthCfg,
        z \in ({TRUE} \X (0..MaxThreshold)) \cup {<<FALSE, MaxThreshold>>}}

Init ==
    /\ fs \in ShapeFileSystems
    /\ rootPath = 1
    /\ cfg \in ShapeConfigs
    /\ callbacks = [onProgress |-> TRUE, isCancelled |-> TRUE]
    /\ status = [m \in Modes |-> "none"]
    /\ Idle

Next ==
    \/ \E m \in Modes : Start(m)
    \/ EnterDir
    \/ ProcessItem
    \/ ReturnDir
    \/ Finish

Spec == Init /\ [][Next]_vars

\* ------------------------------------------------------------------
\* Initial states of the gitignore family: /r holds the directory d and the
\* entries 4..NumNodes, spread over /r and /r/d; one .gitignore lies in "/",
\* in /r or in /r/d and may be unreadable
\* ------------------------------------------------------------------

GitNames == << <<"a", ".", "l", "o", "g">>, <<"b">> >>

GitPatternFiles ==
    { << <<"*", ".", "l", "o", "g">> >>,
      << <<"d">> >>,
      << <<"d", "/", "b">> >>,
      << <<"#", " ", "b">>, <<>>, <<" ", "b", " ">> >> }

GitFs(n, loc, readable, lines, parent, kind, name) ==
    [n |-> n,
     parent |-> [x \in 0..n |-> CASE x <= 1 -> 0 [] x = 2 -> loc [] x = 3 -> 1
                                  [] OTHER -> parent[x]],
     kind |-> [x \in 0..n |-> CASE x <= 1 -> "directory" [] x = 2 -> "file"
                                [] x = 3 -> "directory" [] OTHER -> kind[x]],
     name |-> [x \in 0..n |-> CASE x = 0 -> <<>> [] x = 1 -> <<"r">>
                                [] x = 2 -> GitignoreName [] x = 3 -> <<"d">>
                                [] OTHER -> GitNames[name[x]]],
     size |-> [x \in 0..n |-> x % (MaxStat + 1)],
     mtime |-> [x \in 0..n |-> (2 * x) % (MaxStat + 1)],
     mode |-> [x \in 0..n |-> 420],
     readable |-> [x \in 0..n |-> x # 2 \/ readable],
     statOk |-> [x \in 0..n |-> TRUE],
     lines |-> [x \in 0..n |-> IF x = 2 THEN lines ELSE <<>>]]

GitFileSystems ==
    {GitFs(NumNodes, t[1], t[2], t[3], t[4], t[5], t[6]) :
        t \in {0, 1, 3} \X BOOLEAN \X GitPatternFiles
              \X [4..NumNodes -> {1, 3}] \X [4..NumNodes -> {"directory", "file"}]
              \X [4..NumNodes -> 1..Len(GitNames)]}

GitConfigs ==
    {[DefaultConfig EXCEPT !.includeHidden = h, !.respectGitignore = g,
                           !.compressLargeDirs = FALSE] :
        h \in BOOLEAN, g \in BOOLEAN}

InitGit ==
    /\ fs \in GitFileSystems
    /\ \A x, y \in 4..fs.n :
          (x # y /\ fs.parent[x] = fs.parent[y]) => fs.name[x] # fs.name[y]
    /\ rootPath = 1
    /\ cfg \in GitConfigs
    /\ callbacks = [onProgress |-> TRUE, isCancelled |-> TRUE]
    /\ status = [m \in Modes |-> "none"]
    /\ Idle

SpecGit == InitGit /\ [][Next]_vars

\* ------------------------------------------------------------------
\* filterAndSort called on its own: the raw listing of one directory.
\* /r holds the entries 3..NumNodes, of any kind, named from FilterNames;
\* a .gitignore with the line *.log lies in /r or in "/" and may be unreadable
\* ------------------------------------------------------------------

FilterNames == << <<".", "h", ".", "m", "d">>, <<"A", ".", "M", "D">>,
                  <<"n", "o", "d", "e">>, <<"x", ".", "l", "o", "g">> >>

FilterFs(n, loc, readable, kind, name) ==
    [n |-> n,
     parent |-> [x \in 0..n |-> CASE x <= 1 -> 0 [] x = 2 -> loc [] OTHER -> 1],
     kind |-> [x \in 0..n |-> CASE x <= 1 -> "directory" [] x = 2 -> "file"
                                [] OTHER -> kind[x]],
     name |-> [x \in 0..n |-> CASE x = 0 -> <<>> [] x = 1 -> <<"r">>
                                [] x = 2 -> GitignoreName
                                [] OTHER -> FilterNames[name[x]]],
     size |-> [x \in 0..n |-> x % (MaxStat + 1)],
     mtime |-> [x \in 0..n |-> (2 * x) % (MaxStat + 1)],
     mode |-> [x \in 0..n |-> 420],
     readable |-> [x \in 0..n |-> x # 2 \/ readable],
     statOk |-> [x \in 0..n |-> TRUE],
     lines |-> [x \in 0..n |-> IF x = 2 THEN << <<"*", ".", "l", "o", "g">> >>
                               ELSE <<>>]]

FilterFileSystems ==
    {FilterFs(NumNodes, t[1], t[2], t[3], t[4]) :
        t \in {0, 1} \X BOOLEAN
              \X [3..NumNodes -> {"directory", "file", "symlink"}]
              \X [3..NumNodes -> 1..Len(FilterNames)]}

FilterConfigs ==
    {[DefaultConfig EXCEPT !.includeHidden = t[1], !.excludeFolders = t[2],
                           !.extensionFilter = t[3], !.excludePatterns = t[4],
                           !.respectGitignore = t[5]] :
        t \in BOOLEAN
              \X {NullList, ListOf(<< <<"n", "o", "d", "e">> >>)}
              \X {NullList, ListOf(<< <<"m", "d">> >>)}
              \X {NullList, ListOf(<< <<"/", "r", "/", "A", "*">> >>)}
              \X BOOLEAN}

InitFilter ==
    /\ fs \in FilterFileSystems
    /\ \A x, y \in 3..fs.n : x # y => fs.name[x] # fs.name[y]
    /\ rootPath = 1
    /\ cfg \in FilterConfigs
    /\ callbacks = [onProgress |-> FALSE, isCancelled |-> FALSE]
    /\ status = [m \in Modes |-> "none"]
    /\ Idle

\* filterAndSort(items, parentPath) on the listing of rootPath
CallFilterAndSort ==
    /\ call.fn = "none"
    /\ LET items == Readdir(fs, rootPath)
           r == FilterAndSort(fs, cfg, gitignoreCache, items, rootPath)
       IN /\ call' = [fn |-> "filterAndSort", items |-> items,
                      parentPath |-> rootPath, threw |-> r.threw, out |-> r.items]
          /\ gitignoreCache' = r.cache
    /\ UNCHANGED <<fs, rootPath, cfg, callbacks, active, stack, status, processed,
                   events, result, thrown, ui, log, statsCache>>
    /\ UNCHANGED hostVars

NextFilter == CallFilterAndSort

SpecFilter == InitFilter /\ [][NextFilter]_vars

\* ------------------------------------------------------------------
\* Initial states of the sort family: /r holds the directory f10 and the
\* entries 3..NumNodes, in /r or in /r/f10, of any kind, empty or of
\* size MaxStat; the bigger an entry the older it is
\* ------------------------------------------------------------------

SortFs(n, parent, kind, size) ==
    [n |-> n,
     parent |-> [x \in 0..n |-> CASE x <= 1 -> 0 [] x = 2 -> 1 [] OTHER -> parent[x]],
     kind |-> [x \in 0..n |-> IF x <= 2 THEN "directory" ELSE kind[x]],
     name |-> [x \in 0..n |-> IF x = 0 THEN <<>> ELSE IF x = 1 THEN <<"r">>
                              ELSE SlotName(x)],
     size |-> [x \in 0..n |-> IF x <= 2 THEN 0 ELSE size[x]],
     mtime |-> [x \in 0..n |-> IF x <= 2 THEN 0 ELSE MaxStat - size[x]],
     mode |-> [x \in 0..n |-> 420],
     readable |-> [x \in 0..n |-> TRUE],
     statOk |-> [x \in 0..n |-> TRUE],
     lines |-> [x \in 0..n |-> <<>>]]

\* the first k of the entries lie in /r, the others in /r/f10
SortFileSystems ==
    {SortFs(NumNodes, [x \in 3..NumNodes |-> IF x - 2 <= t[1] THEN 1 ELSE 2], t[2], t[3]) :
        t \in (0..(NumNodes - 2))
              \X [3..NumNodes -> {"directory", "file", "symlink"}]
              \X [3..NumNodes -> {0, MaxStat}]}

SortKeys == {"name", "size", "modified", "type"}

SortConfigs ==
    {[DefaultConfig EXCEPT !.sortBy = t[1], !.includeSize = t[2],
                           !.includePermissions = t[2], !.includeModifiedDate = t[2],
                           !.compressLargeDirs = FALSE, !.respectGitignore = FALSE] :
        t \in SortKeys \X BOOLEAN}

InitSort ==
    /\ fs \in SortFileSystems
    /\ rootPath = 1
    /\ cfg \in SortConfigs
    /\ callbacks = [onProgress |-> TRUE, isCancelled |-> FALSE]
    /\ status = [m \in Modes |-> "none"]
    /\ Idle

SpecSort == InitSort /\ [][Next]_vars

\* ------------------------------------------------------------------
\* What a finished run produced
\* ------------------------------------------------------------------

\* the paths of a children list and of everything below it, in pre-order
RECURSIVE PreOrder(_)
PreOrder(children) ==
    IF children = <<>> THEN <<>>
    ELSE <<Head(children).path>> \o PreOrder(Head(children).children)
         \o PreOrder(Tail(children))

\* the entries of the eager tree, root excluded, in order
EagerEntries == PreOrder(result.tree.children)

IsItemEvent(e) == e.kind \in {"file", "directory-open"}

RECURSIVE ItemPaths(_)
ItemPaths(evs) ==
    IF evs = <<>> THEN <<>>
    ELSE IF IsItemEvent(Head(evs)) THEN <<Head(evs).entry.path>> \o ItemPaths(Tail(evs))
    ELSE ItemPaths(Tail(evs))

\* the entries the file and directory-open events carry, in order
StreamEntries == ItemPaths(events)

Range(s) == {s[i] : i \in 1..Len(s)}

\* the paths a finished run of mode m shows
Shown(m) == IF m = "eager" THEN Range(EagerEntries) ELSE Range(StreamEntries)

EventsOfKind(k) == {i \in 1..Len(events) : events[i].kind = k}

\* open directories after the first k events
OpenDepth(k) ==
    Cardinality({i \in 1..k : events[i].kind = "directory-open"})
    - Cardinality({i \in 1..k : events[i].kind = "directory-close"})

\* the directory-close that matches the directory-open at index i (0: none)
MatchingClose(i) ==
    LET c == {k \in (i + 1)..Len(events) :
                 /\ events[k].kind = "directory-close"
                 /\ OpenDepth(k) = OpenDepth(i) - 1
                 /\ \A j \in (i + 1)..(k - 1) : OpenDepth(j) >= OpenDepth(i)}
    IN IF c = {} THEN 0 ELSE CHOOSE k \in c : TRUE

\* the subtrees of the eager tree: every entry of it, at any depth
RECURSIVE Subtrees(_)
Subtrees(children) ==
    IF children = <<>> THEN {}
    ELSE {Head(children)} \cup Subtrees(Head(children).children)
         \cup Subtrees(Tail(children))

\* the entries of directory d that pass the filters, as the traversal sees them
Passing(d) == Range(FilterAndSort(fs, cfg, gitignoreCache, Readdir(fs, d), d).items)

\* ------------------------------------------------------------------
\* C1  A streaming run that completes yields exactly one start event, first,
\*     and exactly one end event, last; directory-open and directory-close
\*     nest properly (no prefix has more closes than opens, equal at the end);
\*     and every file / directory-open event of a child of directory D lies
\*     strictly between D's directory-open and its matching directory-close.
\* ------------------------------------------------------------------
C1_StreamOrdering ==
    status["streaming"] = "done" =>
        LET n == Len(events) IN
        /\ n >= 2
        /\ EventsOfKind("start") = {1}
        /\ EventsOfKind("end") = {n}
        /\ \A k \in 0..n : OpenDepth(k) >= 0
        /\ OpenDepth(n) = 0
        /\ \A i \in EventsOfKind("directory-open") : MatchingClose(i) # 0
        /\ \A j \in 1..n :
              IsItemEvent(events[j]) =>
                  LET d == fs.parent[events[j].entry.path] IN
                  IF d = rootPath THEN 1 < j /\ j < n
                  ELSE \E i \in 1..(j - 1) :
                          /\ events[i].kind = "directory-open"
                          /\ events[i].entry.path = d
                          /\ j < MatchingClose(i)

\* a completed run with a file two directories below the root
C1_Witness ==
    /\ status["streaming"] = "done"
    /\ \E j \in 1..Len(events) :
          /\ events[j].kind = "file"
          /\ DepthBelow(fs, rootPath, events[j].entry.path) = 3

\* ------------------------------------------------------------------
\* C3  as amended: the cancellation check is polled at the start of each
\*     directory's processing, before the traversal lists the directory's
\*     entries, in both modes; a poll that answers true is the last thing the
\*     traversal does and ends it as cancelled: eager generate returns no
\*     text, streaming yields no end event and no event after the abort; and
\*     when the first poll answers true there is no progress callback and no
\*     file or directory-open event.
\* ------------------------------------------------------------------
IsOp(op, k) == op[1] = k

C3_PolledFirst ==
    \A m \in Modes :
        LET L == log[m] IN
        /\ \A i \in 1..Len(L) :
              (IsOp(L[i], "readdir") /\ L[i][3] = "withFileTypes") =>
                  \E j \in 1..(i - 1) :
                      /\ L[j] = <<"poll", L[i][2], FALSE>>
                      /\ \A k \in (j + 1)..(i - 1) :
                            ~IsOp(L[k], "poll") /\ ~IsOp(L[k], "readdir")
        /\ \A i \in 1..Len(L) :
              (IsOp(L[i], "poll") /\ L[i][3]) => i = Len(L) /\ status[m] = "cancelled"
        /\ status[m] = "cancelled" =>
              /\ L # <<>> /\ IsOp(L[Len(L)], "poll") /\ L[Len(L)][3]
              /\ m = "eager" => ~result.returned
              /\ m = "streaming" => EventsOfKind("end") = {}
        /\ (L # <<>> /\ IsOp(L[1], "poll") /\ L[1][3]) =>
              /\ \A i \in 1..Len(L) : ~IsOp(L[i], "onProgress")
              /\ m = "streaming" => StreamEntries = <<>>

C3_CancellationAborts ==
    /\ []C3_PolledFirst
    /\ [][(status["streaming"] = "cancelled" /\ status'["streaming"] = "cancelled")
              => events' = events]_vars

\* a streaming run cancelled in a subdirectory after it yielded entries and
\* invoked no progress callback
C3_Witness ==
    /\ status["streaming"] = "cancelled"
    /\ StreamEntries # <<>>
    /\ \E i \in 2..Len(log["streaming"]) :
          log["streaming"][i] = <<"poll", 2, TRUE>>

\* C3  as stated: every read of a directory, of any kind, comes after that
\*     directory's own poll (and a true poll aborts as above)
C3_ReadOnlyAfterPoll ==
    \A m \in Modes :
        LET L == log[m] IN
        /\ \A i \in 1..Len(L) :
              IsOp(L[i], "readdir") =>
                  \E j \in 1..(i - 1) : L[j] = <<"poll", L[i][2], FALSE>>
        /\ \A i \in 1..Len(L) :
              (IsOp(L[i], "poll") /\ L[i][3]) => i = Len(L) /\ status[m] = "cancelled"

\* ------------------------------------------------------------------
\* C4  When a traversal started by mainGenerate is cancelled the caller
\*     takes its 'cancelled' outcome, never 'generation failed'; and an I/O
\*     failure never takes the 'cancelled' outcome.
\* ------------------------------------------------------------------
C4_CancellationDistinguishable ==
    \A m \in Modes :
        /\ status[m] = "cancelled" => ui[m] = "cancelled"
        /\ status[m] = "failed" => ui[m] # "cancelled"

\* ------------------------------------------------------------------
\* C5  In both modes, when reading a directory fails the directory is
\*     skipped: generate does not fail, and a run that completes shows every
\*     sibling of the unreadable directory.
\* ------------------------------------------------------------------
FailedReads(m) ==
    {op[2] : op \in {o \in Range(log[m]) : IsOp(o, "readdir") /\ ~fs.readable[o[2]]}}

C5_UnreadableSkipped ==
    \A m \in Modes :
        FailedReads(m) \ {rootPath} # {} =>
            /\ status[m] # "failed"
            /\ status[m] = "done" =>
                  \A d \in FailedReads(m) \ {rootPath} :
                      Passing(Dirname(fs, d)) \subseteq Shown(m)

\* ------------------------------------------------------------------
\* C6  For maxDepth = n > 0 (children of the root at depth 1), in both
\*     modes: no entry deeper than n is shown; every directory at depth n
\*     that passes the filters of a traversed parent is shown, with no
\*     children (eager: empty children list; streaming: its directory-open is
\*     followed at once by its directory-close).  For maxDepth = 0 every
\*     entry that passes the filters of a traversed parent is shown.
\* ------------------------------------------------------------------
Depth(x) == DepthBelow(fs, rootPath, x)

\* a finished run of mode m went through the entries of directory d
Traversed(m, d) ==
    /\ d = rootPath \/ d \in Shown(m)
    /\ <<"readdir", d, "withFileTypes">> \in Range(log[m])
    /\ fs.readable[d]

C6_DepthLimit ==
    \A m \in Modes :
        status[m] = "done" =>
            LET n == cfg.maxDepth IN
            /\ n > 0 =>
                  /\ \A x \in Shown(m) : Depth(x) <= n
                  /\ \A d \in Nodes(fs) :
                        (Depth(d) < n /\ Traversed(m, d)) => Passing(d) \subseteq Shown(m)
                  /\ m = "eager" =>
                        \A e \in Subtrees(result.tree.children) :
                            (e.type = "directory" /\ Depth(e.path) = n) => e.children = <<>>
                  /\ m = "streaming" =>
                        \A i \in EventsOfKind("directory-open") :
                            Depth(events[i].entry.path) = n =>
                                /\ i < Len(events)
                                /\ events[i + 1].kind = "directory-close"
            /\ n = 0 =>
                  \A d \in Nodes(fs) :
                      /\ Traversed(m, d) => Passing(d) \subseteq Shown(m)
                      /\ (m = "eager" /\ (d = rootPath \/ d \in Shown(m)) /\ IsDirectory(fs, d))
                            => Traversed(m, d)

\* both modes finished with maxDepth = 1 on a tree whose depth-1 directory
\* has an entry of its own on disk
C6_Witness ==
    /\ status["eager"] = "done"
    /\ status["streaming"] = "done"
    /\ cfg.maxDepth = 1
    /\ \E d \in Shown("eager") \cap Shown("streaming") :
          /\ IsDirectory(fs, d)
          /\ Depth(d) = 1
          /\ Readdir(fs, d) # <<>>

\* ------------------------------------------------------------------
\* C10 as amended: with compressLargeDirs = true, for every directory other
\*     than the traversal root whose own line is in the tree output: when
\*     its child count in the built tree exceeds compressionThreshold the
\*     output has exactly one collapsed-summary line for it, stating that
\*     count, and no line for any of its children; otherwise it has no
\*     summary line and every one of its children has a line.
\* ------------------------------------------------------------------
Lined(k) == {i \in 1..Len(result.text) : result.text[i].kind = k}

\* the output renders tree entry e as the claim says a directory is rendered
RenderedByCount(e) ==
    IF Len(e.children) > cfg.compressionThreshold
    THEN /\ Cardinality({i \in Lined("collapsed") : result.text[i].path = e.path}) = 1
         /\ \A i \in Lined("collapsed") :
               result.text[i].path = e.path => result.text[i].count = Len(e.children)
         /\ \A c \in Range(e.children) :
               {i \in Lined("entry") : result.text[i].path = c.path} = {}
    ELSE /\ {i \in Lined("collapsed") : result.text[i].path = e.path} = {}
         /\ \A c \in Range(e.children) :
               Cardinality({i \in Lined("entry") : result.text[i].path = c.path}) = 1

C10_CollapsedBelowRoot ==
    (status["eager"] = "done" /\ cfg.compressLargeDirs) =>
        \A e \in Subtrees(result.tree.children) :
            (e.type = "directory"
             /\ {i \in Lined("entry") : result.text[i].path = e.path} # {})
                => RenderedByCount(e)

\* a finished eager run whose output has a summary line counting two items
C10_Witness ==
    /\ status["eager"] = "done"
    /\ cfg.compressLargeDirs
    /\ \E i \in Lined("collapsed") : result.text[i].count = 2

\* C10 as stated: every directory of the traversal, the root included, is
\*     rendered by its child count
C10_EveryDirectoryCollapsed ==
    (status["eager"] = "done" /\ cfg.compressLargeDirs) =>
        \A e \in Subtrees(<<result.tree>>) : e.type = "directory" => RenderedByCount(e)

\* ------------------------------------------------------------------
\* C7  With respectGitignore enabled: no entry is shown whose path relative
\*     to the directory of the governing .gitignore (the nearest one in the
\*     entry's directory or above it) matches one of that file's patterns,
\*     nor any entry below an ignored directory; and every entry that
\*     matches no pattern and passes the other filters, in a directory that
\*     is itself shown, is shown once the run is over.
\* ------------------------------------------------------------------

\* the nearest directory at or above d that holds a .gitignore (-1: none)
RECURSIVE GoverningDir(_)
GoverningDir(d) ==
    IF GitignoreIn(fs, d) # 0 THEN d
    ELSE IF d = 0 THEN -1
    ELSE GoverningDir(Dirname(fs, d))

MatchesGoverning(x) ==
    LET g == GoverningDir(Dirname(fs, x)) IN
    /\ g # -1
    /\ \E p \in Range(ParsePatterns(fs.lines[GitignoreIn(fs, g)])) :
          MatchesPattern(RelativeStr(fs, g, x), p)

PassesHidden(x) == cfg.includeHidden \/ Head(fs.name[x]) # "."

\* the entries strictly below the traversal root, x included, on the way to x
RECURSIVE Chain(_)
Chain(x) == IF x = rootPath \/ x = 0 THEN {} ELSE {x} \cup Chain(Dirname(fs, x))

C7_GitignoreRespected ==
    cfg.respectGitignore =>
        \A m \in Modes :
            /\ \A x \in Shown(m) : \A a \in Chain(x) : ~MatchesGoverning(a)
            /\ status[m] \in {"done", "failed"} =>
                  \A x \in Nodes(fs) :
                      (/\ IsUnder(fs, x, rootPath) /\ x # rootPath
                       /\ \A a \in Chain(x) : ~MatchesGoverning(a) /\ PassesHidden(a))
                          => x \in Shown(m)

\* ------------------------------------------------------------------
\* C8  filterAndSort returns exactly the raw entries that satisfy every
\*     enabled predicate, each once: not hidden unless includeHidden; not a
\*     directory named in excludeFolders; a regular file has its lower-cased
\*     extension in extensionFilter when that is set; the full path matches
\*     no excludePatterns glob; not ignored by the gitignore rules resolved
\*     for the directory.  So the result is a subset of the input, folder
\*     exclusion removes no file and the whitelist removes no directory.
\* ------------------------------------------------------------------
ResolvedRules == GetGitignoreRules(fs, <<>>, call.parentPath).rules

Keeps(x) ==
    /\ cfg.includeHidden \/ Head(fs.name[x]) # "."
    /\ ~(/\ cfg.excludeFolders.given
         /\ fs.kind[x] = "directory"
         /\ fs.name[x] \in Range(cfg.excludeFolders.list))
    /\ (cfg.extensionFilter.given /\ fs.kind[x] = "file")
          => LowerExtension(fs.name[x]) \in Range(cfg.extensionFilter.list)
    /\ ~(/\ cfg.excludePatterns.given
         /\ \E p \in Range(cfg.excludePatterns.list) : MatchesPattern(PathStr(fs, x), p))
    /\ ~(/\ cfg.respectGitignore
         /\ ResolvedRules.found
         /\ IsIgnored(fs, ResolvedRules, x))

C8_FilterExact ==
    (call.fn = "filterAndSort" /\ ~call.threw) =>
        /\ Range(call.out) = {x \in Range(call.items) : Keeps(x)}
        /\ Cardinality(Range(call.out)) = Len(call.out)

\* a call with the folder list and the whitelist set that kept a file and
\* dropped a file named like an excluded folder
C8_Witness ==
    /\ call.fn = "filterAndSort"
    /\ ~call.threw
    /\ cfg.excludeFolders.given
    /\ cfg.extensionFilter.given
    /\ \E x \in Range(call.out) : fs.kind[x] = "file"
    /\ \E x \in Range(call.items) \ Range(call.out) :
          fs.kind[x] = "file" /\ fs.name[x] = <<"n", "o", "d", "e">>

\* ------------------------------------------------------------------
\* C9  After an eager build with sort key k, every children list of the
\*     tree, at every depth, has its directories before its files and
\*     symlinks, and each of the two groups is ordered by k: name ascending
\*     (numeric-aware), size descending (missing = 0), modified descending
\*     (missing = epoch), type ascending by kind string.
\* ------------------------------------------------------------------
SameGroup(a, b) == (a.type = "directory") = (b.type = "directory")

KindString(e) ==
    CASE e.type = "directory" -> <<"d", "i", "r", "e", "c", "t", "o", "r", "y">>
      [] e.type = "file" -> <<"f", "i", "l", "e">>
      [] OTHER -> <<"s", "y", "m", "l", "i", "n", "k">>

\* a may stand before b under key k
InOrder(k, a, b) ==
    CASE k = "name" -> LocaleCompare(a.name, b.name) <= 0
      [] k = "size" -> OrZero(a.size) >= OrZero(b.size)
      [] k = "modified" -> OrZero(a.modified) >= OrZero(b.modified)
      [] k = "type" -> LocaleCompare(KindString(a), KindString(b)) <= 0

Ordered(k, list) ==
    \A i, j \in 1..Len(list) :
        i < j =>
            /\ ~(list[i].type # "directory" /\ list[j].type = "directory")
            /\ SameGroup(list[i], list[j]) => InOrder(k, list[i], list[j])

C9_ChildrenSorted ==
    status["eager"] = "done" =>
        \A e \in Subtrees(<<result.tree>>) : Ordered(cfg.sortBy, e.children)

\* an eager build by size that had to move a bigger file up
C9_Witness ==
    /\ status["eager"] = "done"
    /\ cfg.sortBy = "size"
    /\ \E e \in Subtrees(<<result.tree>>) :
          \E i, j \in 1..Len(e.children) :
              /\ i < j
              /\ e.children[i].type = "file" /\ e.children[j].type = "file"
              /\ e.children[i].path > e.children[j].path
              /\ OrZero(e.children[i].size) > OrZero(e.children[j].size)

\* ------------------------------------------------------------------
\* C2  The entries the eager output lists are, in order, the entries the
\*     file and directory-open events of a streaming run carry, for the
\*     same tree and config.
\* ------------------------------------------------------------------
RECURSIVE EntryLinePaths(_)
EntryLinePaths(lines) ==
    IF lines = <<>> THEN <<>>
    ELSE IF Head(lines).kind = "entry"
    THEN <<Head(lines).path>> \o EntryLinePaths(Tail(lines))
    ELSE EntryLinePaths(Tail(lines))

\* the entries the eager text has a line for, in order
EagerRendered == EntryLinePaths(result.text)

C2_SameEntriesSameOrder ==
    (status["eager"] = "done" /\ status["streaming"] = "done") =>
        EagerRendered = StreamEntries

\* ------------------------------------------------------------------
\* C15 Resolving the gitignore rules never throws: a run that met a
\*     nearest .gitignore it could not read carries no error, and once it
\*     has ended it is done, not failed.
\* ------------------------------------------------------------------
UnreadableGitignoreMet(m) ==
    \E op \in Range(log[m]) : IsOp(op, "readFile") /\ ~ReadFileOk(fs, op[2])

C15_GitignoreNeverThrows ==
    \A m \in Modes :
        UnreadableGitignoreMet(m) =>
            /\ thrown[m] = NoError
            /\ status[m] \in {"running", "done", "cancelled"}

\* ------------------------------------------------------------------
\* Repeated calls in one process: a generate call that returned is kept by
\* its caller, a new generator is built and run on the same directory with
\* the caches as the earlier calls left them; between two calls a file of
\* the directory may change on disk
\* ------------------------------------------------------------------

\* the caller keeps the output of the call of mode m that returned and is
\* free to call again; while no other output is pending the next generator
\* may be built with or without a progress callback
InvokeAgain(m, cb) ==
    /\ active = "none"
    /\ status[m] = "done"
    /\ Len(history) < MaxCalls
    /\ cb = callbacks.onProgress \/ \A o \in Modes \ {m} : status[o] = "none"
    /\ history' = Append(history,
                         [mode |-> m, fs |-> fs, onProgress |-> callbacks.onProgress,
                          tree |-> IF m = "eager" THEN result.tree ELSE NoEntry,
                          processed |-> processed[m],
                          log |-> log[m],
                          gitignoreCache |-> gitignoreCache,
                          statsCache |-> statsCache])
    /\ status' = [status EXCEPT ![m] = "none"]
    /\ callbacks' = [callbacks EXCEPT !.onProgress = cb]
    /\ UNCHANGED <<fs, rootPath, cfg, active, stack, processed, events, result,
                   thrown, ui, log, gitignoreCache, statsCache, call>>
    /\ UNCHANGED <<advancedCache, now, worker, inflight>>

\* the file system as it is after file x was rewritten: a .gitignore loses
\* its lines, any other file changes size and modification time
Rewritten(f, x) ==
    IF f.name[x] = GitignoreName
    THEN [f EXCEPT !.lines[x] = <<>>, !.size[x] = 0]
    ELSE [f EXCEPT !.size[x] = (@ + 1) % (MaxStat + 1),
                   !.mtime[x] = (@ + 1) % (MaxStat + 1)]

\* between two calls, with no output pending, one file below the root is
\* rewritten on disk
ChangeFile(x) ==
    /\ active = "none"
    /\ \A m \in Modes : status[m] = "none"
    /\ history # <<>>
    /\ history[Len(history)].fs = fs
    /\ IsFile(fs, x) /\ IsUnder(fs, x, rootPath)
    /\ fs' = Rewritten(fs, x)
    /\ UNCHANGED <<rootPath, cfg, callbacks, active, stack, status, processed, events,
                   result, thrown, ui, log, gitignoreCache, statsCache, call, history>>
    /\ UNCHANGED <<advancedCache, now, worker, inflight>>

\* deactivate(): the extension is shut down between two calls and its
\* caches are cleared
Deactivate ==
    /\ active = "none"
    /\ \A m \in Modes : status[m] = "none"
    /\ history # <<>>
    /\ gitignoreCache # <<>> \/ statsCache # <<>> \/ advancedCache # <<>>
    /\ advancedCache' = <<>>
    /\ gitignoreCache' = <<>>
    /\ statsCache' = <<>>
    /\ UNCHANGED <<fs, rootPath, cfg, callbacks, active, stack, status, processed,
                   events, result, thrown, ui, log, call, history, now, worker,
                   inflight>>

\* /r holds .gitignore, directory d and file b, the file in /r or in d
RepeatFileSystems ==
    {GitFs(4, 1, TRUE, t[1], [x \in {4} |-> t[2]], [x \in {4} |-> "file"],
           [x \in {4} |-> 2]) :
        t \in {<< <<"*", ".", "l", "o", "g">> >>, << <<"d">> >>} \X {1, 3}}

RepeatConfigs ==
    {[DefaultConfig EXCEPT !.includeHidden = TRUE, !.respectGitignore = TRUE,
                           !.includeSize = TRUE, !.compressLargeDirs = FALSE]}

InitRepeat ==
    /\ fs \in RepeatFileSystems
    /\ \A x, y \in 4..fs.n :
          (x # y /\ fs.parent[x] = fs.parent[y]) => fs.name[x] # fs.name[y]
    /\ rootPath = 1
    /\ cfg \in RepeatConfigs
    /\ callbacks = [onProgress |-> TRUE, isCancelled |-> FALSE]
    /\ status = [m \in Modes |-> "none"]
    /\ Idle

NextRepeat ==
    \/ \E m \in Modes : Start(m)
    \/ EnterDir
    \/ ProcessItem
    \/ ReturnDir
    \/ Finish
    \/ \E m \in Modes, cb \in BOOLEAN : InvokeAgain(m, cb)
    \/ \E x \in Nodes(fs) : ChangeFile(x)
    \/ Deactivate

SpecRepeat == InitRepeat /\ [][NextRepeat]_vars

\* ------------------------------------------------------------------
\* C11 An eager call that returns after an earlier eager call on the same,
\*     unchanged directory with the same config, the caches being as the
\*     earlier calls left them, builds the same entries in the same order.
\* ------------------------------------------------------------------
\* cache `old` is still part of cache `new`
Left(old, new) == \A k \in DOMAIN old : k \in DOMAIN new /\ new[k] = old[k]

\* the earlier eager calls on the directory as it is now whose cache entries
\* are all still there
EarlierEager ==
    {i \in 1..Len(history) :
        /\ history[i].mode = "eager"
        /\ history[i].fs = fs
        /\ Left(history[i].gitignoreCache, gitignoreCache)
        /\ Left(history[i].statsCache, statsCache)}

C11_RepeatedEagerSame ==
    status["eager"] = "done" =>
        \A i \in EarlierEager :
            /\ PreOrder(history[i].tree.children) = EagerEntries
            /\ history[i].tree = result.tree

\* the second call answered its rule lookup from the cache the first call
\* filled, and the rules hid an entry both times
C11_Witness ==
    /\ status["eager"] = "done"
    /\ \E i \in EarlierEager :
          /\ \E op \in Range(history[i].log) : IsOp(op, "readFile")
          /\ EagerEntries # <<>>
    /\ \A op \in Range(log["eager"]) : ~IsOp(op, "readFile")
    /\ \E x \in Nodes(fs) :
          /\ x # rootPath /\ IsUnder(fs, x, rootPath) /\ fs.name[x] # GitignoreName
          /\ x \notin Range(EagerEntries)

\* ------------------------------------------------------------------
\* C12 A call never answers from a cache entry an earlier finished call
\*     inserted: the sizes a finished call reports are the sizes the files
\*     have on disk, and once the .gitignore has lost its lines every entry
\*     below the root is shown.
\* ------------------------------------------------------------------
ReportedEntries(m) ==
    IF m = "eager" THEN Subtrees(<<result.tree>>)
    ELSE {events[i].entry : i \in {j \in 1..Len(events) : IsItemEvent(events[j])}}

NoGitignoreLines ==
    \A x \in Nodes(fs) : fs.name[x] = GitignoreName => fs.lines[x] = <<>>

C12_FreshAcrossCalls ==
    \A m \in Modes :
        status[m] = "done" =>
            /\ \A e \in ReportedEntries(m) :
                  e.size # Undefined => e.size = fs.size[e.path]
            /\ NoGitignoreLines =>
                  \A x \in Nodes(fs) :
                      (x # rootPath /\ IsUnder(fs, x, rootPath)) => x \in Shown(m)

\* ------------------------------------------------------------------
\* C19 The eager generator calls its progress callback once per processed
\*     child entry, with increment 1 and never for the root: the calls made
\*     so far number the processed counter, which at the end is the number
\*     of non-root entries of the tree; a call made without a callback
\*     builds the tree the call with a callback built.
\* ------------------------------------------------------------------
ProgressOps(s) == SelectSeqBy(s, {op \in Range(s) : IsOp(op, "onProgress")})

EagerProgressCalls == ProgressOps(log["eager"])

C19_ProgressPerEntry ==
    status["eager"] \in {"running", "done"} =>
        /\ Len(EagerProgressCalls) =
              IF callbacks.onProgress THEN processed["eager"] ELSE 0
        /\ \A op \in Range(EagerProgressCalls) : op[2] = 1
        /\ \A i \in 1..Len(log["eager"]) :
              IsOp(log["eager"][i], "onProgress") =>
                  \E j \in 1..(i - 1) : log["eager"][j] = <<"readdir", rootPath, "withFileTypes">>
        /\ status["eager"] = "done" =>
              /\ processed["eager"] = Len(EagerEntries)
              /\ \A i \in EarlierEager :
                    history[i].onProgress # callbacks.onProgress =>
                        /\ history[i].tree = result.tree
                        /\ history[i].processed = processed["eager"]

\* a call without a callback has returned after a call with one, and the
\* tree has an entry inside a subdirectory
C19_Witness ==
    /\ status["eager"] = "done"
    /\ ~callbacks.onProgress
    /\ \E i \in EarlierEager :
          /\ history[i].onProgress
          /\ Len(ProgressOps(history[i].log)) >= 2
    /\ \E e \in Subtrees(<<result.tree>>) : e.path # rootPath /\ e.children # <<>>

\* ------------------------------------------------------------------
\* Direct callers: the export and batch commands build a generator from
\* the config as it is and call generate on the path as it is, without
\* mainGenerate's isValidDirectory check
\* ------------------------------------------------------------------

\* new StructureGenerator(cfg, ..).generate(rootPath), or the streaming
\* generator's generate: the constructor copies the config, generate enters
\* buildTree/streamDir on the root
StartDirect(m) ==
    /\ active = "none"
    /\ status[m] = "none"
    /\ active' = m
    /\ status' = [Kept(m, status, "none") EXCEPT ![m] = "running"]
    /\ stack' = <<NewFrame(fs, rootPath, 0, <<>>)>>
    /\ events' = IF m = "streaming" THEN StartEvents(m)
                 ELSE IF status["streaming"] = "done" THEN events ELSE <<>>
    /\ ui' = Kept(m, ui, "none")
    /\ log' = Kept(m, log, <<>>)
    /\ thrown' = Kept(m, thrown, NoError)
    /\ processed' = Kept(m, processed, 0)
    /\ UNCHANGED <<fs, rootPath, cfg, callbacks, result, gitignoreCache, statsCache, call>>
    /\ UNCHANGED hostVars

\* "/" holds directory r, file f0 and the name gone that nothing exists
\* under; r holds file f1 and directory d, d holds file f2 or nothing
DirectFileSystems ==
    {[n |-> 6,
      parent |-> [x \in 0..6 |-> CASE x \in {0, 1, 2, 3} -> 0 [] x \in {4, 5} -> 1
                                   [] OTHER -> p],
      kind |-> [x \in 0..6 |-> CASE x \in {0, 1, 5} -> "directory" [] x = 3 -> "missing"
                                 [] OTHER -> "file"],
      name |-> [x \in 0..6 |-> CASE x = 0 -> <<>> [] x = 1 -> <<"r">>
                                 [] x = 2 -> <<"f", "0">> [] x = 3 -> <<"g", "o", "n", "e">>
                                 [] x = 4 -> <<"f", "1">> [] x = 5 -> <<"d">>
                                 [] OTHER -> <<"f", "2">>],
      size |-> [x \in 0..6 |-> x % (MaxStat + 1)],
      mtime |-> [x \in 0..6 |-> (2 * x) % (MaxStat + 1)],
      mode |-> [x \in 0..6 |-> 420],
      readable |-> [x \in 0..6 |-> x # 3],
      statOk |-> [x \in 0..6 |-> x # 3],
      lines |-> [x \in 0..6 |-> <<>>]] : p \in {1, 5}}

\* the config as the settings or the wizard hand it over: maxDepth is
\* whatever number was entered
DirectConfigs ==
    {[DefaultConfig EXCEPT !.maxDepth = d, !.includeSize = s,
                           !.respectGitignore = FALSE, !.compressLargeDirs = FALSE] :
        d \in {-1, 0, 1}, s \in BOOLEAN}

InitDirect ==
    /\ fs \in DirectFileSystems
    /\ rootPath \in {1, 2, 3}
    /\ cfg \in DirectConfigs
    /\ callbacks = [onProgress |-> TRUE, isCancelled |-> FALSE]
    /\ status = [m \in Modes |-> "none"]
    /\ Idle

NextDirect ==
    \/ \E m \in Modes : Start(m)
    \/ \E m \in Modes : StartDirect(m)
    \/ EnterDir
    \/ ProcessItem
    \/ ReturnDir
    \/ Finish

SpecDirect == InitDirect /\ [][NextDirect]_vars

\* ------------------------------------------------------------------
\* C13 No traversal runs with a negative maxDepth: a generator given one
\*     fails when it is constructed, so no call with such a config ever
\*     returns normally.
\* ------------------------------------------------------------------
C13_NegativeDepthRejected ==
    \A m \in Modes : status[m] = "done" => cfg.maxDepth >= 0

\* ------------------------------------------------------------------
\* C14 generate on a root that does not exist or is not a directory fails
\*     in both modes: with a config whose maxDepth is not negative, no call
\*     on such a root ends done, and the streaming events never close with
\*     an end event.
\* ------------------------------------------------------------------
C14_InvalidRootFails ==
    (~IsValidDirectory(fs, rootPath) /\ cfg.maxDepth >= 0) =>
        /\ \A m \in Modes : status[m] # "done"
        /\ \A e \in Range(events) : e.kind # "end"

\* ------------------------------------------------------------------
\* AdvancedCache: the TTL cache of utils/cache.ts, driven by direct calls
\* ------------------------------------------------------------------

JsNull == "null"

JsUndefined == "undefined"

\* this.cache.get(key) found nothing
NoRec == [data |-> JsUndefined, ts |-> -1, ttl |-> -1]

\* Date.now() - rec.ts > rec.ttl, at time t, with the boundary moved
Expired_AtTtl(rec, t) == t - rec.ts >= rec.ttl

\* Date.now() - rec.ts > rec.ttl, at time t
Expired(rec, t) == t - rec.ts > rec.ttl

MapDelete(c, k) == [j \in DOMAIN c \ {k} |-> c[j]]

\* cleanup(): every expired record is deleted
Cleanup(c, t) == [k \in {j \in DOMAIN c : ~Expired(c[j], t)} |-> c[k]]

\* set(key, data, ttl) at time t: the map afterwards
SetOutcome(c, k, data, ttl, t) ==
    LET c1 == MapSet(c, k, [data |-> data, ts |-> t, ttl |-> ttl])
    IN IF Cardinality(DOMAIN c1) % CleanupEvery = 0 THEN Cleanup(c1, t) ELSE c1

\* get(key) at time t: the value returned and the map afterwards
GetOutcome(c, k, t) ==
    IF k \notin DOMAIN c THEN [out |-> JsNull, cache |-> c]
    ELSE IF Expired(c[k], t) THEN [out |-> JsNull, cache |-> MapDelete(c, k)]
    ELSE [out |-> c[k].data, cache |-> c]

\* has(key) at time t: get(key) !== null
HasOutcome(c, k, t) ==
    LET g == GetOutcome(c, k, t)
    IN [out |-> g.out # JsNull, cache |-> g.cache]

\* the record this.cache holds for k when a call starts
Found(c, k) == IF k \in DOMAIN c THEN c[k] ELSE NoRec

\* the state of the generators, which no cache call touches
traversalVars == <<fs, rootPath, cfg, callbacks, active, stack, status, processed,
                   events, result, thrown, ui, log, gitignoreCache, statsCache, history,
                   worker, inflight>>

CacheKeys == {"key1", "key2"}

CacheValues == {"value1", JsNull, JsUndefined}

\* the TTLs callers pass: a short one, or none (the default applies)
CacheTtls == {1, DefaultTTL}

AdvancedCacheSet(k, data, ttl) ==
    /\ advancedCache' = SetOutcome(advancedCache, k, data, ttl, now)
    /\ call' = [fn |-> "set", key |-> k, at |-> now,
                found |-> Found(advancedCache, k), out |-> JsUndefined]
    /\ UNCHANGED <<traversalVars, now>>

AdvancedCacheGet(k) ==
    LET g == GetOutcome(advancedCache, k, now)
    IN /\ advancedCache' = g.cache
       /\ call' = [fn |-> "get", key |-> k, at |-> now,
                   found |-> Found(advancedCache, k), out |-> g.out]
       /\ UNCHANGED <<traversalVars, now>>

AdvancedCacheHas(k) ==
    LET h == HasOutcome(advancedCache, k, now)
    IN /\ advancedCache' = h.cache
       /\ call' = [fn |-> "has", key |-> k, at |-> now,
                   found |-> Found(advancedCache, k), out |-> h.out]
       /\ UNCHANGED <<traversalVars, now>>

AdvancedCacheDelete(k) ==
    /\ advancedCache' = MapDelete(advancedCache, k)
    /\ call' = [fn |-> "delete", key |-> k, at |-> now,
                found |-> Found(advancedCache, k), out |-> JsUndefined]
    /\ UNCHANGED <<traversalVars, now>>

AdvancedCacheClear ==
    /\ advancedCache' = <<>>
    /\ call' = [fn |-> "clear", key |-> "", at |-> now, found |-> NoRec,
                out |-> JsUndefined]
    /\ UNCHANGED <<traversalVars, now>>

\* a millisecond passes
Tick ==
    /\ now < MaxTime
    /\ now' = now + 1
    /\ UNCHANGED <<traversalVars, advancedCache, call>>

\* no directory is being walked: "/" alone
NoFiles ==
    [n |-> 0, parent |-> [x \in {0} |-> 0], kind |-> [x \in {0} |-> "directory"],
     name |-> [x \in {0} |-> <<>>], size |-> [x \in {0} |-> 0],
     mtime |-> [x \in {0} |-> 0], mode |-> [x \in {0} |-> 420],
     readable |-> [x \in {0} |-> TRUE], statOk |-> [x \in {0} |-> TRUE],
     lines |-> [x \in {0} |-> <<>>]]

InitCache ==
    /\ fs = NoFiles
    /\ rootPath = 0
    /\ cfg = DefaultConfig
    /\ callbacks = [onProgress |-> FALSE, isCancelled |-> FALSE]
    /\ status = [m \in Modes |-> "none"]
    /\ Idle

NextCache ==
    \/ \E k \in CacheKeys, data \in CacheValues, ttl \in CacheTtls :
          AdvancedCacheSet(k, data, ttl)
    \/ \E k \in CacheKeys : AdvancedCacheGet(k)
    \/ \E k \in CacheKeys : AdvancedCacheHas(k)
    \/ \E k \in CacheKeys : AdvancedCacheDelete(k)
    \/ AdvancedCacheClear
    \/ Tick

SpecCache == InitCache /\ [][NextCache]_vars

\* ------------------------------------------------------------------
\* C16 A key set with TTL T at time t0 is returned by get at time t when
\*     t - t0 <= T; when t - t0 > T get returns null and the record is gone
\*     from the cache afterwards. (set stores the time of the call.)
\* ------------------------------------------------------------------
C16_TtlExpiry ==
    /\ (call.fn = "set" /\ call.key \in DOMAIN advancedCache) =>
          advancedCache[call.key].ts = call.at
    /\ (call.fn = "get" /\ call.found # NoRec) =>
          IF call.at - call.found.ts <= call.found.ttl
          THEN /\ call.out = call.found.data
               /\ call.key \in DOMAIN advancedCache
               /\ advancedCache[call.key] = call.found
          ELSE /\ call.out = JsNull
               /\ call.key \notin DOMAIN advancedCache

\* a get one millisecond past the TTL found the record and returned null
C16_Witness ==
    /\ call.fn = "get" /\ call.found # NoRec
    /\ call.found.data = "value1"
    /\ call.at - call.found.ts = call.found.ttl + 1
    /\ call.out = JsNull

\* ------------------------------------------------------------------
\* C17 has(k) is true exactly when k was set and has not been deleted,
\*     cleared or expired since, whatever value was stored.
\* ------------------------------------------------------------------
C17_HasIffLive ==
    call.fn = "has" =>
        (call.out <=> (call.found # NoRec
                        /\ call.at - call.found.ts <= call.found.ttl))

\* ------------------------------------------------------------------
\* Worker mode: generateInWorker starts a worker thread that runs the eager
\* generator and posts progress, result or error messages back
\* ------------------------------------------------------------------

\* the messages the worker has posted so far: one progress message per
\* onProgress call, then the result or the error its handler ended with
WorkerPosted ==
    LET calls == SelectSeqBy(log["eager"],
                             {op \in {log["eager"][i] : i \in 1..Len(log["eager"])} :
                                 op[1] = "onProgress"})
    IN [i \in 1..Len(calls) |-> [type |-> "progress", increment |-> calls[i][2]]]
       \o (IF status["eager"] = "done" THEN <<[type |-> "result"]>>
           ELSE IF status["eager"] = "failed" THEN <<[type |-> "error"]>>
           ELSE <<>>)

\* resolve or reject: only the first call settles the promise
Settle(w, how) ==
    [w EXCEPT !.promise = IF @ = "pending" THEN how ELSE @,
              !.settlements = Append(@, how)]

\* worker.terminate(): a running thread stops, with exit code 1
Terminate(w) ==
    IF w.thread = "running" THEN [w EXCEPT !.thread = "terminated", !.exitCode = 1]
    ELSE w

\* the exit handler that never rejects
ExitRejects_Never(code) == FALSE

\* the exit handler rejects for a non-zero code
ExitRejects(code) == code # 0

\* what the host's handlers leave alone
hostUntouched == <<fs, rootPath, cfg, callbacks, active, stack, status, processed,
                   events, result, thrown, ui, log, gitignoreCache, statsCache, call,
                   history, advancedCache, now, inflight>>

\* generateInWorker: the promise is created, the worker started and the
\* request posted
GenerateInWorker ==
    /\ worker.promise = "none"
    /\ worker' = [worker EXCEPT !.thread = "running", !.promise = "pending"]
    /\ UNCHANGED hostUntouched

\* the worker's message handler builds the generator and calls generate
WorkerOnMessage ==
    /\ worker.thread = "running"
    /\ StartDirect("eager")

\* worker.on('message'): the next posted message reaches the host
HostOnMessage ==
    /\ worker.thread \in {"running", "terminated"}
    /\ worker.delivered < Len(WorkerPosted)
    /\ LET msg == WorkerPosted[worker.delivered + 1]
           w == [worker EXCEPT !.delivered = @ + 1, !.received = Append(@, msg.type)]
       IN worker' = CASE msg.type = "progress" -> w
                      [] msg.type = "result" -> Terminate(Settle(w, "resolved"))
                      [] OTHER -> Terminate(Settle(w, "rejected"))
    /\ UNCHANGED hostUntouched

\* token.onCancellationRequested: the worker is terminated
CancellationRequested ==
    /\ worker.promise # "none"
    /\ ~worker.cancelled
    /\ worker' = Terminate([worker EXCEPT !.cancelled = TRUE])
    /\ UNCHANGED hostUntouched

\* worker.on('error'): the thread died of an uncaught exception before its
\* handler ran (inside the handler every error is caught and posted)
WorkerError ==
    /\ worker.thread = "running"
    /\ status["eager"] = "none"
    /\ worker' = [Settle(worker, "rejected") EXCEPT !.thread = "terminated",
                                                     !.exitCode = 1]
    /\ UNCHANGED hostUntouched

\* worker.on('exit')
HostOnExit ==
    /\ worker.thread = "terminated"
    /\ worker' = IF ExitRejects(worker.exitCode)
                 THEN Settle([worker EXCEPT !.thread = "exited"], "rejected")
                 ELSE [worker EXCEPT !.thread = "exited"]
    /\ UNCHANGED hostUntouched

\* /r holds f1 and directory d, which may be unreadable
WorkerFileSystems ==
    {[f EXCEPT !.readable[5] = r] : f \in DirectFileSystems, r \in BOOLEAN}

InitWorker ==
    /\ fs \in WorkerFileSystems
    /\ rootPath = 1
    /\ cfg \in {[DefaultConfig EXCEPT !.respectGitignore = FALSE, !.includeSize = s,
                                      !.compressLargeDirs = FALSE] : s \in BOOLEAN}
    /\ callbacks = [onProgress |-> TRUE, isCancelled |-> FALSE]
    /\ status = [m \in Modes |-> "none"]
    /\ Idle

\* the steps of the worker thread and of the host's event loop
WorkerProgress ==
    \/ GenerateInWorker
    \/ WorkerOnMessage
    \/ worker.thread = "running" /\ EnterDir
    \/ worker.thread = "running" /\ ProcessItem
    \/ worker.thread = "running" /\ ReturnDir
    \/ worker.thread = "running" /\ Finish
    \/ HostOnMessage
    \/ HostOnExit

NextWorker ==
    \/ WorkerProgress
    \/ CancellationRequested
    \/ WorkerError

SpecWorker == InitWorker /\ [][NextWorker]_vars

\* ------------------------------------------------------------------
\* C18 Per request the worker posts progress messages and then exactly one
\*     result or error, nothing after it; the host handles them in order
\*     and the promise of generateInWorker settles exactly once: resolved
\*     by the result, rejected by an error message, a worker error or a
\*     cancellation, which terminates the worker. Once settled it stays as
\*     it is, and when neither the worker thread nor the host has a step
\*     left the promise is settled.
\* ------------------------------------------------------------------

\* the request was made and no step of the worker thread or of the host's
\* event loop is left
WorkerQuiet ==
    /\ worker.promise # "none"
    /\ worker.thread # "terminated"
    /\ worker.thread = "running" =>
          /\ status["eager"] \in {"done", "failed"}
          /\ worker.delivered = Len(WorkerPosted)

LastReceived == IF worker.received = <<>> THEN "none"
                ELSE worker.received[Len(worker.received)]

C18_Orderly ==
    /\ \A i \in 1..(Len(WorkerPosted) - 1) : WorkerPosted[i].type = "progress"
    /\ Len(worker.received) = worker.delivered
    /\ worker.delivered <= Len(WorkerPosted)
    /\ \A i \in 1..worker.delivered : worker.received[i] = WorkerPosted[i].type
    /\ worker.promise = "resolved" <=> LastReceived = "result"
    /\ worker.promise = "rejected" =>
          \/ LastReceived = "error"
          \/ worker.thread = "exited"
          \/ worker.thread = "terminated" /\ worker.received = <<>>
    /\ LastReceived = "error" => worker.promise = "rejected"
    /\ worker.cancelled => worker.thread \in {"terminated", "exited"}
    /\ worker.promise \in {"resolved", "rejected"} =>
          worker.promise = worker.settlements[1]
    /\ WorkerQuiet => worker.promise \in {"resolved", "rejected"}
    /\ (WorkerQuiet /\ ~worker.cancelled /\ status["eager"] # "none") =>
          LastReceived \in {"result", "error"}

C18_WorkerProtocol ==
    /\ []C18_Orderly
    /\ [][/\ worker.promise \in {"resolved", "rejected"} => worker'.promise = worker.promise
          /\ LastReceived \in {"result", "error"} => worker'.received = worker.received]_vars

\* the promise was resolved by a result that followed three progress
\* messages, and the exit of the terminated worker changed nothing
C18_Witness ==
    /\ worker.promise = "resolved"
    /\ worker.received = <<"progress", "progress", "progress", "result">>
    /\ worker.thread = "exited"
    /\ worker.settlements = <<"resolved", "rejected">>

\* ------------------------------------------------------------------
\* Wide directories: /r holds some hundreds of entries, walked by the
\* streaming generator
\* ------------------------------------------------------------------

\* the name of the k-th entry: f000, f001, ..
WideName(k) ==
    <<"f">> \o <<Digits[((k \div 100) % 10) + 1], Digits[((k \div 10) % 10) + 1],
                 Digits[(k % 10) + 1]>>

\* /r (node 1) holds w entries (nodes 2..w+1), files but for the hundredth,
\* which is of kind k
WideFs(w, k) ==
    [n |-> w + 1,
     parent |-> [x \in 0..(w + 1) |-> IF x <= 1 THEN 0 ELSE 1],
     kind |-> [x \in 0..(w + 1) |-> IF x <= 1 THEN "directory"
                                      ELSE IF x = ProgressEvery + 1 THEN k ELSE "file"],
     name |-> [x \in 0..(w + 1) |-> IF x = 0 THEN <<>> ELSE IF x = 1 THEN <<"r">>
                                      ELSE WideName(x - 2)],
     size |-> [x \in 0..(w + 1) |-> x % (MaxStat + 1)],
     mtime |-> [x \in 0..(w + 1) |-> (2 * x) % (MaxStat + 1)],
     mode |-> [x \in 0..(w + 1) |-> 420],
     readable |-> [x \in 0..(w + 1) |-> TRUE],
     statOk |-> [x \in 0..(w + 1) |-> TRUE],
     lines |-> [x \in 0..(w + 1) |-> <<>>]]

\* one entry less than, exactly, and one more than each multiple of
\* ProgressEvery up to MaxHundreds of them
WideWidths ==
    {h * ProgressEvery + d : h \in 1..MaxHundreds, d \in {-1, 0, 1}}

InitWide ==
    /\ fs \in {WideFs(w, k) : w \in WideWidths, k \in {"file", "directory"}}
    /\ rootPath = 1
    /\ cfg = [DefaultConfig EXCEPT !.respectGitignore = FALSE, !.sortBy = "type",
                                   !.compressLargeDirs = FALSE]
    /\ callbacks = [onProgress |-> TRUE, isCancelled |-> FALSE]
    /\ status = [m \in Modes |-> "none"]
    /\ Idle

NextWide ==
    \/ Start("streaming")
    \/ EnterDir
    \/ ProcessItem
    \/ ReturnDir
    \/ Finish

SpecWide == InitWide /\ [][NextWide]_vars

\* ------------------------------------------------------------------
\* C20 The streaming generator emits a progress event exactly when its
\*     processed counter reaches a positive multiple of 100: the event
\*     carries that value and is immediately followed by the file or
\*     directory-open event of the item that made the counter reach it; a
\*     completed run of N items has the N div 100 progress events 100, 200, ..
\* ------------------------------------------------------------------

\* the positions of the file and directory-open events, in order
ItemPositions ==
    SelectSeq([i \in 1..Len(events) |-> i], LAMBDA i : IsItemEvent(events[i]))

ProgressValues ==
    LET ps == SelectSeqBy(events, {e \in Range(events) : e.kind = "progress"})
    IN [i \in 1..Len(ps) |-> ps[i].processed]

C20_ProgressEveryHundred ==
    LET at == ItemPositions
    IN /\ \A k \in 1..Len(at) :
             LET before == IF at[k] > 1 THEN events[at[k] - 1].kind ELSE "none"
             IN IF k % 100 = 0
                THEN before = "progress" /\ events[at[k] - 1].processed = k
                ELSE before # "progress"
       /\ ProgressValues = [i \in 1..(Len(at) \div 100) |-> 100 * i]
       /\ status["streaming"] = "done" =>
             events[Len(events)].totalItems = Len(at)

\* a run of 201 items has ended with the progress events 100 and 200, the
\* first of them in front of a directory-open event
C20_Witness ==
    /\ status["streaming"] = "done"
    /\ Len(ItemPositions) = 201
    /\ ProgressValues = <<100, 200>>
    /\ \E i \in 1..(Len(events) - 1) :
          events[i].kind = "progress" /\ events[i + 1].kind = "directory-open"

\* ------------------------------------------------------------------
\* C26 In every completed streaming run the end event's totalItems is the
\*     number of file events plus the number of directory-open events of
\*     the run, and at every point the processed counter is the number of
\*     file and directory-open events yielded so far plus at most one (the
\*     item in hand).
\* ------------------------------------------------------------------

EndEventsAt == EventsOfKind("end")

C26_TotalItemsCount ==
    /\ processed["streaming"] - Len(ItemPositions) \in {0, 1}
    /\ \A i \in EndEventsAt : events[i].totalItems = Len(ItemPositions)
    /\ status["streaming"] = "done" => EndEventsAt = {Len(events)}

\* a streaming run has ended after yielding both kinds of item event
C26_Witness ==
    /\ status["streaming"] = "done"
    /\ EventsOfKind("file") # {}
    /\ EventsOfKind("directory-open") # {}
    /\ events[Len(events)].kind = "end"
    /\ events[Len(events)].totalItems >= 3

\* ------------------------------------------------------------------
\* C27 as amended: in streaming mode a directory qualifies for compression
\*     exactly when compressLargeDirs is on and its child count is strictly
\*     greater than compressionThreshold; the directory-open event of such a
\*     directory is immediately followed by its directory-close; for a
\*     readable directory above the depth limit that does not qualify, the
\*     events of all its children that pass the filters are emitted between
\*     its directory-open and its directory-close.
\* ------------------------------------------------------------------

\* the number of entries directory d holds on disk
ChildCount(d) == Cardinality({x \in Nodes(fs) : x # 0 /\ fs.parent[x] = d})

Qualifies(d) == cfg.compressLargeDirs /\ ChildCount(d) > cfg.compressionThreshold

\* the paths of the file and directory-open events strictly between i and k
ItemsBetween(i, k) ==
    {events[j].entry.path : j \in {j \in (i + 1)..(k - 1) : IsItemEvent(events[j])}}

AboveDepthLimit(d) == cfg.maxDepth = 0 \/ Depth(d) < cfg.maxDepth

C27_CompressionSkipsChildren ==
    status["streaming"] = "done" =>
        \A i \in EventsOfKind("directory-open") :
            LET d == events[i].entry.path
            IN IF Qualifies(d)
               THEN i < Len(events) /\ events[i + 1].kind = "directory-close"
               ELSE (fs.readable[d] /\ AboveDepthLimit(d)) =>
                        /\ MatchingClose(i) # 0
                        /\ Passing(d) \subseteq ItemsBetween(i, MatchingClose(i))

\* a finished streaming run opened a directory of two entries with the
\* threshold at one, and none of the two has an event
C27_Witness ==
    /\ status["streaming"] = "done"
    /\ cfg.compressLargeDirs
    /\ cfg.compressionThreshold = 1
    /\ \E i \in EventsOfKind("directory-open") :
          /\ ChildCount(events[i].entry.path) = 2
          /\ events[i + 1].kind = "directory-close"
          /\ \A x \in Nodes(fs) :
                fs.parent[x] = events[i].entry.path => x \notin Range(StreamEntries)

\* C27 as stated: every directory that does not qualify has the events of
\*     all its children emitted
C27_ChildrenAlwaysEmitted ==
    status["streaming"] = "done" =>
        \A i \in EventsOfKind("directory-open") :
            LET d == events[i].entry.path
            IN IF Qualifies(d)
               THEN i < Len(events) /\ events[i + 1].kind = "directory-close"
               ELSE /\ MatchingClose(i) # 0
                    /\ Passing(d) \subseteq ItemsBetween(i, MatchingClose(i))

\* ------------------------------------------------------------------
\* Initial states of the link family: /r holds the directory d and two more
\* entries, in /r or /r/d, each a file, a directory or a symbolic link;
\* fs.target[x] is what a link resolves to: 0 nothing (dangling), 1 /r, 2 /r/d.
\* stat follows the link, the Dirent type does not.
\* ------------------------------------------------------------------

LinkFs(parent, kind, target) ==
    LET res == [x \in 0..4 |-> IF x >= 3 /\ kind[x] = "symlink" THEN target[x] ELSE x]
    IN [n |-> 4,
        parent |-> [x \in 0..4 |-> CASE x <= 1 -> 0 [] x = 2 -> 1 [] OTHER -> parent[x]],
        kind |-> [x \in 0..4 |-> IF x <= 2 THEN "directory" ELSE kind[x]],
        name |-> [x \in 0..4 |-> IF x = 0 THEN <<>> ELSE IF x = 1 THEN <<"r">>
                                 ELSE SlotName(x)],
        size |-> [x \in 0..4 |-> res[x] % (MaxStat + 1)],
        mtime |-> [x \in 0..4 |-> (2 * res[x]) % (MaxStat + 1)],
        mode |-> [x \in 0..4 |-> IF res[x] <= 2 \/ kind[res[x]] = "directory"
                                 THEN 493 ELSE 420],
        readable |-> [x \in 0..4 |-> TRUE],
        statOk |-> [x \in 0..4 |-> x < 3 \/ kind[x] # "symlink" \/ target[x] # 0],
        lines |-> [x \in 0..4 |-> <<>>],
        target |-> res]

LinkFileSystems ==
    {LinkFs(t[1], t[2], t[3]) :
        t \in {u \in [3..4 -> 1..3] \X [3..4 -> {"directory", "file", "symlink"}]
                     \X [3..4 -> 0..2] :
                 /\ u[1][3] < 3
                 /\ u[1][4] = 3 => u[2][3] = "directory"
                 /\ \A x \in 3..4 : u[2][x] # "symlink" => u[3][x] = 0}}

LinkConfigs ==
    {[DefaultConfig EXCEPT !.includeSize = t[1], !.compressLargeDirs = t[2],
                           !.compressionThreshold = 1, !.respectGitignore = FALSE] :
        t \in BOOLEAN \X BOOLEAN}

InitLink ==
    /\ fs \in LinkFileSystems
    /\ rootPath = 1
    /\ cfg \in LinkConfigs
    /\ callbacks = [onProgress |-> TRUE, isCancelled |-> FALSE]
    /\ status = [m \in Modes |-> "none"]
    /\ Idle

SpecLink == InitLink /\ [][Next]_vars

\* ------------------------------------------------------------------
\* C28 Symbolic links are leaf entries in both modes: an entry of kind file
\*     or symlink never has children and is never recursed into (no
\*     activation runs on it, no readdir lists it, no directory-open event
\*     carries it); a traversal never yields more entries than the tree
\*     below its root holds, never lists a directory twice, so it
\*     terminates, also with links that point to an ancestor; and every
\*     path appears at most once in the result.
\* ------------------------------------------------------------------

\* s has no element twice
NoDuplicates(s) == Cardinality(Range(s)) = Len(s)

Below(root) == {x \in Nodes(fs) : x # root /\ IsUnder(fs, x, root)}

\* the directories the run of mode m has listed, in order
Listed(m) ==
    LET rd == SelectSeqBy(log[m], {op \in Range(log[m]) :
                                      IsOp(op, "readdir") /\ op[3] = "withFileTypes"})
    IN [i \in 1..Len(rd) |-> rd[i][2]]

C28_LinksAreLeaves ==
    /\ \A i \in 1..Len(stack) : IsDirectory(fs, stack[i].dir)
    /\ \A m \in Modes :
          /\ \A op \in Range(log[m]) : IsOp(op, "readdir") => IsDirectory(fs, op[2])
          /\ NoDuplicates(Listed(m))
          /\ processed[m] <= Cardinality(Below(rootPath))
    /\ \A e \in Subtrees(result.tree.children) :
          e.type \in {"file", "symlink"} => (e.children = <<>> /\ ~e.hasChildren)
    /\ \A i \in EventsOfKind("directory-open") : events[i].entry.type = "directory"
    /\ \A i \in EventsOfKind("file") : events[i].entry.children = <<>>
    /\ NoDuplicates(StreamEntries)
    /\ result.returned => NoDuplicates(EagerEntries)

\* both runs are over on a tree where /r/d holds a link to /r, and both
\* show the link as a leaf
C28_Witness ==
    /\ status["eager"] = "done"
    /\ status["streaming"] = "done"
    /\ \E x \in 3..4 :
          /\ IsSymbolicLink(fs, x)
          /\ fs.parent[x] = 2
          /\ fs.target[x] = 1
          /\ x \in Range(EagerEntries) \cap Range(StreamEntries)
          /\ \E e \in Subtrees(result.tree.children) : e.path = x /\ e.type = "symlink"

\* ------------------------------------------------------------------
\* Initial states of the stat family: every tree of directories and files on
\* three nodes below /r, one directory of which (0: none) may be listed but
\* not searched (mode r--): readdir of it succeeds, stat and readdir of each
\* of its entries fail with EACCES.  The metadata flags vary.
\* ------------------------------------------------------------------

StatFs(parent, kind, locked) ==
    [n |-> 4,
     parent |-> [x \in 0..4 |-> IF x <= 1 THEN 0 ELSE parent[x]],
     kind |-> [x \in 0..4 |-> IF x <= 1 THEN "directory" ELSE kind[x]],
     name |-> [x \in 0..4 |-> IF x = 0 THEN <<>> ELSE IF x = 1 THEN <<"r">>
                              ELSE SlotName(x)],
     size |-> [x \in 0..4 |-> x % (MaxStat + 1)],
     mtime |-> [x \in 0..4 |-> (2 * x) % (MaxStat + 1)],
     mode |-> [x \in 0..4 |-> IF x <= 1 \/ kind[IF x <= 1 THEN 2 ELSE x] = "directory"
                              THEN 493 ELSE 420],
     readable |-> [x \in 0..4 |-> x <= 1 \/ parent[IF x <= 1 THEN 2 ELSE x] # locked],
     statOk |-> [x \in 0..4 |-> x <= 1 \/ parent[IF x <= 1 THEN 2 ELSE x] # locked],
     lines |-> [x \in 0..4 |-> <<>>]]

StatFileSystems ==
    {StatFs(t[1], t[2], t[3]) :
        t \in {u \in [2..4 -> 1..4] \X [2..4 -> {"directory", "file"}] \X (0..4) :
                 /\ \A x \in 2..4 :
                       /\ u[1][x] < x
                       /\ u[1][x] = 1 \/ u[2][u[1][x]] = "directory"
                 /\ u[3] \in {0, 1} \/ (u[3] >= 2 /\ u[2][u[3]] = "directory")}}

StatConfigs ==
    {[DefaultConfig EXCEPT !.includeSize = t[1], !.includePermissions = t[2],
                           !.includeModifiedDate = t[3], !.respectGitignore = FALSE] :
        t \in {<<FALSE, FALSE, FALSE>>, <<TRUE, FALSE, FALSE>>, <<FALSE, TRUE, FALSE>>,
               <<FALSE, FALSE, TRUE>>, <<TRUE, TRUE, TRUE>>}}

InitStat ==
    /\ fs \in StatFileSystems
    /\ rootPath = 1
    /\ cfg \in StatConfigs
    /\ callbacks = [onProgress |-> TRUE, isCancelled |-> FALSE]
    /\ status = [m \in Modes |-> "none"]
    /\ Idle

SpecStat == InitStat /\ [][Next]_vars

\* ------------------------------------------------------------------
\* C29 A traversal with includeSize, includePermissions and
\*     includeModifiedDate all false performs no stat call, leaves the
\*     stats cache unchanged, and no entry it produces carries size,
\*     permissions or modified; with at least one flag set, each path is
\*     stat'ed at most once per traversal.
\* ------------------------------------------------------------------

\* the paths the run of mode m has called stat on, in order
StatCalls(m) ==
    LET st == SelectSeqBy(log[m], {op \in Range(log[m]) : IsOp(op, "stat")})
    IN [i \in 1..Len(st) |-> st[i][2]]

\* the entries produced so far: the eager tree and the streamed entries
Produced ==
    Subtrees(<<result.tree>>)
    \cup {events[i].entry : i \in {j \in 1..Len(events) : IsItemEvent(events[j])}}
    \cup UNION {Subtrees(stack[i].entry.children) : i \in 1..Len(stack)}

Bare(e) == e.size = Undefined /\ e.permissions = <<>> /\ e.modified = Undefined

C29_StatOnlyWhenAsked ==
    /\ ~AnyMetadata(cfg) =>
          /\ \A m \in Modes : StatCalls(m) = <<>>
          /\ statsCache = <<>>
          /\ \A e \in Produced : Bare(e)
    /\ AnyMetadata(cfg) => \A m \in Modes : NoDuplicates(StatCalls(m))

\* ------------------------------------------------------------------
\* C24 getGitignoreRules(d) returns the rule set of the .gitignore in the
\*     nearest directory among d and its ancestors, the file-system root
\*     included, with the patterns of that file, evaluated against paths
\*     relative to that directory; it returns null only if none of these
\*     directories holds a .gitignore.  (Stated for a .gitignore that can
\*     be read; what it returned is what it cached.)
\* ------------------------------------------------------------------

\* the directories the run of mode m has resolved the rules of
Resolved(m) ==
    {op[2] : op \in {o \in Range(log[m]) : IsOp(o, "findNearestGitignore")}}

C24_NearestGitignore ==
    \A m \in Modes :
        \A d \in Resolved(m) :
            LET g == GoverningDir(d) IN
            IF g = -1 THEN d \notin DOMAIN gitignoreCache
            ELSE ReadFileOk(fs, GitignoreIn(fs, g)) =>
                    /\ d \in DOMAIN gitignoreCache
                    /\ gitignoreCache[d] =
                          [found |-> TRUE,
                           patterns |-> ParsePatterns(fs.lines[GitignoreIn(fs, g)]),
                           base |-> g]

\* ------------------------------------------------------------------
\* The snapshot family: the repeat family's directories, walked while
\* another process rewrites the .gitignore
\* ------------------------------------------------------------------

\* a .gitignore below the root is rewritten while a traversal is under way
ModifyGitignore(x) ==
    /\ Running
    /\ IsFile(fs, x) /\ IsUnder(fs, x, rootPath)
    /\ fs.name[x] = GitignoreName
    /\ fs' = Rewritten(fs, x)
    /\ fs' # fs
    /\ UNCHANGED <<rootPath, cfg, callbacks, active, stack, status, processed, events,
                   result, thrown, ui, log, gitignoreCache, statsCache, call>>
    /\ UNCHANGED hostVars

NextSnapshot ==
    \/ \E m \in Modes : Start(m)
    \/ EnterDir
    \/ ProcessItem
    \/ ReturnDir
    \/ Finish
    \/ \E x \in Nodes(fs) : ModifyGitignore(x)

SpecSnapshot == InitRepeat /\ [][NextSnapshot]_vars

\* ------------------------------------------------------------------
\* C23 Gitignore snapshot semantics: each directory first queried gets its
\*     own gitignore cache entry, repeated lookups for it are answered from
\*     the cache without reading the file again, and within one traversal
\*     the cache entries of two directories governed by the same .gitignore
\*     hold the same pattern list, also when the file is modified between
\*     the first lookups of the two directories.
\* ------------------------------------------------------------------

\* the .gitignore files the run of mode m has read, in order of the
\* directories they were read for
ResolvedInOrder(m) ==
    LET fn == SelectSeqBy(log[m], {o \in Range(log[m]) : IsOp(o, "findNearestGitignore")})
    IN [i \in 1..Len(fn) |-> fn[i][2]]

\* exactly one traversal has run or is running
FirstTraversal == \E m \in Modes : status[m] # "none" /\ \A o \in Modes \ {m} : status[o] = "none"

C23_GitignoreSnapshot ==
    FirstTraversal =>
        /\ \A m \in Modes :
              /\ NoDuplicates(ResolvedInOrder(m))
              /\ \A d \in Resolved(m) : d \in DOMAIN gitignoreCache
        /\ \A d1, d2 \in DOMAIN gitignoreCache :
              GoverningDir(d1) = GoverningDir(d2) =>
                  gitignoreCache[d1].patterns = gitignoreCache[d2].patterns

\* ------------------------------------------------------------------
\* Concurrent traversals in one extension host: each caller is a traversal
\* that has reached a getStats(p) or getGitignoreRules(dir) call.  The call
\* tests the cache, awaits the file system on a miss, and stores what it
\* read when it resumes; other callers and other processes run in between.
\* ------------------------------------------------------------------

\* what neither a lookup nor another process touches
sharedUntouched == <<rootPath, cfg, callbacks, active, stack, status, processed, events,
                     result, thrown, ui, log, call, history, advancedCache, now, worker>>

\* the cache a function works on
CacheOf(fn) == IF fn = "getStats" THEN statsCache ELSE gitignoreCache

\* what the awaited file-system call of `fn(key)` yields on file system f
ReadFor(f, fn, key) ==
    IF fn = "getStats"
    THEN GetStats(f, <<>>, key).stats
    ELSE LET g == GetGitignoreRules(f, <<>>, key)
         IN [ok |-> g.rules.found /\ ~g.threw, rules |-> g.rules]

\* caller t calls fn(key) and misses: cache.has(key) is false, the read is
\* issued and the caller waits
LookupCalled(t, fn, key) ==
    /\ inflight[t].fn = "none"
    /\ key \notin DOMAIN CacheOf(fn)
    /\ inflight' = [inflight EXCEPT ![t] =
                       [fn |-> fn, key |-> key, phase |-> "awaiting", value |-> NoStats]]
    /\ UNCHANGED <<fs, gitignoreCache, statsCache>>
    /\ UNCHANGED sharedUntouched

\* the read of caller t completes with what the disk holds now
LookupSettled(t) ==
    /\ inflight[t].phase = "awaiting"
    /\ inflight' = [inflight EXCEPT ![t].phase = "settled",
                                    ![t].value = ReadFor(fs, inflight[t].fn, inflight[t].key)]
    /\ UNCHANGED <<fs, gitignoreCache, statsCache>>
    /\ UNCHANGED sharedUntouched

\* caller t resumes after its await: cache.set(key, value) unless the read
\* failed or found nothing, then return
LookupResumed(t) ==
    /\ inflight[t].phase = "settled"
    /\ LET l == inflight[t] IN
       /\ statsCache' = IF l.fn = "getStats" /\ l.value.ok
                        THEN MapSet(statsCache, l.key, l.value) ELSE statsCache
       /\ gitignoreCache' = IF l.fn = "getGitignoreRules" /\ l.value.ok
                            THEN MapSet(gitignoreCache, l.key, l.value.rules)
                            ELSE gitignoreCache
    /\ inflight' = [inflight EXCEPT ![t] = NoLookup]
    /\ UNCHANGED fs
    /\ UNCHANGED sharedUntouched

\* another process rewrites a file below the root
FileRewritten(x) ==
    /\ IsFile(fs, x) /\ IsUnder(fs, x, rootPath)
    /\ fs' = Rewritten(fs, x)
    /\ fs' # fs
    /\ UNCHANGED <<gitignoreCache, statsCache, inflight>>
    /\ UNCHANGED sharedUntouched

\* deactivate() or a test's setup clears the caches
CachesCleared ==
    /\ gitignoreCache # <<>> \/ statsCache # <<>>
    /\ gitignoreCache' = <<>>
    /\ statsCache' = <<>>
    /\ UNCHANGED <<fs, inflight>>
    /\ UNCHANGED sharedUntouched

\* /r holds .gitignore (*.log), directory d and file b
SharedFileSystems ==
    {GitFs(4, 1, TRUE, << <<"*", ".", "l", "o", "g">> >>, [x \in {4} |-> 1],
           [x \in {4} |-> "file"], [x \in {4} |-> 2])}

\* the paths the traversals stat and the directories they resolve rules for
StatKeys == {1, 4}
RuleKeys == {1, 3}

InitShared ==
    /\ fs \in SharedFileSystems
    /\ rootPath = 1
    /\ cfg \in RepeatConfigs
    /\ callbacks = [onProgress |-> TRUE, isCancelled |-> FALSE]
    /\ status = [m \in Modes |-> "none"]
    /\ Idle

NextShared ==
    \/ \E t \in Callers, p \in StatKeys : LookupCalled(t, "getStats", p)
    \/ \E t \in Callers, d \in RuleKeys : LookupCalled(t, "getGitignoreRules", d)
    \/ \E t \in Callers : LookupSettled(t)
    \/ \E t \in Callers : LookupResumed(t)
    \/ \E x \in Nodes(fs) : FileRewritten(x)
    \/ CachesCleared

SpecShared == InitShared /\ [][NextShared]_vars

\* ------------------------------------------------------------------
\* C22 In both the stats cache and the gitignore cache, once a key holds a
\*     value that value is never replaced or changed until the cache is
\*     explicitly cleared, under every interleaving of concurrent
\*     traversals sharing the caches, two traversals that both miss on the
\*     same key and both complete their read included.
\* ------------------------------------------------------------------

\* every entry of cache `old` is in `new` with the same value
Kept2(old, new) == \A k \in DOMAIN old : k \in DOMAIN new /\ new[k] = old[k]

C22_EntriesImmutable ==
    [][\/ (gitignoreCache' = <<>> /\ statsCache' = <<>>)
       \/ (Kept2(statsCache, statsCache') /\ Kept2(gitignoreCache, gitignoreCache'))]_vars

\* ------------------------------------------------------------------
\* matchesPattern called directly on every path and pattern of at most
\* MaxGlobLen characters
\* ------------------------------------------------------------------

PathAlphabet == {"a", ".", "/"}
PatternAlphabet == {"a", ".", "/", "*", "?"}

\* the texts of at most n characters over an alphabet
TextsUpTo(alphabet, n) == UNION {[1..k -> alphabet] : k \in 0..n}

CallMatchesPattern(filePath, pattern) ==
    /\ call = NoCall
    /\ call' = [fn |-> "matchesPattern", filePath |-> filePath, pattern |-> pattern,
                out |-> MatchesPattern(filePath, pattern)]
    /\ UNCHANGED <<fs, rootPath, cfg, callbacks, active, stack, status, processed,
                   events, result, thrown, ui, log, gitignoreCache, statsCache>>
    /\ UNCHANGED hostVars

InitGlob ==
    /\ fs = NoFiles
    /\ rootPath = 0
    /\ cfg = DefaultConfig
    /\ callbacks = [onProgress |-> FALSE, isCancelled |-> FALSE]
    /\ status = [m \in Modes |-> "none"]
    /\ Idle

NextGlob ==
    \E filePath \in TextsUpTo(PathAlphabet, MaxGlobLen),
       pattern \in TextsUpTo(PatternAlphabet, MaxGlobLen) :
        CallMatchesPattern(filePath, pattern)

SpecGlob == InitGlob /\ [][NextGlob]_vars

\* ------------------------------------------------------------------
\* C25 matchesPattern(path, pattern) agrees with the reference glob
\*     semantics for every path and pattern over a bounded alphabet: '*'
\*     matches any run of non-separator characters, '**' any run of
\*     characters, '?' exactly one non-separator character, every other
\*     character itself; a pattern without a separator is matched against
\*     the path's base name only, any other against the whole path; the
\*     empty pattern matches no path.
\* ------------------------------------------------------------------

\* the glob p matches the whole of the text s
RECURSIVE GlobMatches(_, _)
GlobMatches(p, s) ==
    IF p = <<>> THEN s = <<>>
    ELSE IF Len(p) >= 2 /\ p[1] = "*" /\ p[2] = "*"
    THEN \E k \in 0..Len(s) : GlobMatches(SubSeq(p, 3, Len(p)), SubSeq(s, k + 1, Len(s)))
    ELSE IF p[1] = "*"
    THEN \E k \in 0..Len(s) :
            /\ \A j \in 1..k : s[j] \notin Separators
            /\ GlobMatches(Tail(p), SubSeq(s, k + 1, Len(s)))
    ELSE IF p[1] = "?"
    THEN s # <<>> /\ s[1] \notin Separators /\ GlobMatches(Tail(p), Tail(s))
    ELSE s # <<>> /\ s[1] = p[1] /\ GlobMatches(Tail(p), Tail(s))

GlobReference(filePath, pattern) ==
    /\ pattern # <<>>
    /\ GlobMatches(pattern, IF \E i \in 1..Len(pattern) : pattern[i] \in Separators
                            THEN filePath ELSE Basename(filePath))

C25_GlobSemantics ==
    call.fn = "matchesPattern" => call.out = GlobReference(call.filePath, call.pattern)

\* ------------------------------------------------------------------
\* C21 In streaming mode what the generator holds at any instant is
\*     proportional to the current depth only (one prefix and one open
\*     directory per level), never to the total number of items or to the
\*     number of entries of a single directory: the open activations of
\*     streamDir together hold at most one directory entry per level.
\* ------------------------------------------------------------------

\* the directory entries held by the open activations of streamDir: each
\* keeps the filtered listing of its directory until its loop has ended
RECURSIVE HeldEntries(_)
HeldEntries(frames) ==
    IF frames = <<>> THEN 0
    ELSE Len(frames[1].items) + HeldEntries(Tail(frames))

C21_MemoryDepthOnly ==
    active = "streaming" => HeldEntries(stack) <= Len(stack)

\* ------------------------------------------------------------------
\* Markdown format (formatting formatMarkdown). The text is a sequence of
\* pieces: a piece is what one template part writes, or a line break.
\* ------------------------------------------------------------------

Newline == [kind |-> "newline"]
Fence == [kind |-> "fence"]

\* lines.join('\n')
RECURSIVE JoinLines(_)
JoinLines(lines) ==
    IF lines = <<>> THEN <<>>
    ELSE IF Len(lines) = 1 THEN <<lines[1]>>
    ELSE <<lines[1], Newline>> \o JoinLines(Tail(lines))

\* formatTree(entry, cfg): no genTime, so no time line; the lines joined
FormatTreeText(c, entry) ==
    JoinLines(SelectSeq(FormatTree(c, entry), LAMBDA l : l.kind # "time"))

\* formatMarkdown(entry, cfg, genTime, processed)
FormatMarkdown(c, entry, n) ==
    <<[kind |-> "heading", name |-> entry.name], Newline, Newline,
      [kind |-> "generated"], Newline,
      [kind |-> "generation-time"], Newline,
      [kind |-> "items", processed |-> n], Newline, Newline,
      [kind |-> "section"], Newline, Fence, Newline>>
    \o FormatTreeText(c, entry)
    \o <<Fence, Newline>>

\* formatMarkdown called on the tree an eager call has returned
CallFormatMarkdown ==
    /\ call = NoCall
    /\ status["eager"] = "done"
    /\ call' = [fn |-> "formatMarkdown", entry |-> result.tree,
                processed |-> processed["eager"],
                out |-> FormatMarkdown(cfg, result.tree, processed["eager"])]
    /\ UNCHANGED <<fs, rootPath, cfg, callbacks, active, stack, status, processed,
                   events, result, thrown, ui, log, gitignoreCache, statsCache>>
    /\ UNCHANGED hostVars

\* the roots formatted: r (with entries) and d (empty, or holding one file)
MarkdownConfigs ==
    {[DefaultConfig EXCEPT !.respectGitignore = FALSE, !.includeSize = s,
                           !.compressLargeDirs = k, !.compressionThreshold = 1,
                           !.maxDepth = d] :
        s \in BOOLEAN, k \in BOOLEAN, d \in {0, 1}}

InitMarkdown ==
    /\ fs \in DirectFileSystems
    /\ rootPath \in {1, 5}
    /\ cfg \in MarkdownConfigs
    /\ callbacks = [onProgress |-> FALSE, isCancelled |-> FALSE]
    /\ status = [m \in Modes |-> "none"]
    /\ Idle

NextMarkdown ==
    \/ Start("eager")
    \/ EnterDir
    \/ ProcessItem
    \/ ReturnDir
    \/ Finish
    \/ CallFormatMarkdown

SpecMarkdown == InitMarkdown /\ [][NextMarkdown]_vars

\* ------------------------------------------------------------------
\* C30 formatMarkdown output, read as a sequence of lines, is a heading
\*     line, the metadata lines, a section heading, an opening fence line,
\*     the tree-format lines of the structure and a closing fence line that
\*     holds only the fence; for every tree (empty root included) every tree
\*     line lies strictly between the two fence lines and no tree line
\*     holds the fence.
\* ------------------------------------------------------------------

\* the text read as lines: the pieces between line breaks, the empty rest
\* after a final line break left out
RECURSIVE SplitLines(_, _)
SplitLines(text, line) ==
    IF text = <<>> THEN (IF line = <<>> THEN <<>> ELSE <<line>>)
    ELSE IF text[1] = Newline THEN <<line>> \o SplitLines(Tail(text), <<>>)
    ELSE SplitLines(Tail(text), Append(line, text[1]))

\* the lines that are not blank
NonBlank(lines) == SelectSeq(lines, LAMBDA l : l # <<>>)

\* the lines the tree format has for the structure, each on its own
TreeFormatLines(c, entry) ==
    [i \in 1..Len(SelectSeq(FormatTree(c, entry), LAMBDA l : l.kind # "time")) |->
        <<SelectSeq(FormatTree(c, entry), LAMBDA l : l.kind # "time")[i]>>]

C30_MarkdownLines ==
    call.fn = "formatMarkdown" =>
        LET lines == NonBlank(SplitLines(call.out, <<>>))
            tree == TreeFormatLines(cfg, call.entry)
        IN /\ lines = <<<<[kind |-> "heading", name |-> call.entry.name]>>,
                        <<[kind |-> "generated"]>>,
                        <<[kind |-> "generation-time"]>>,
                        <<[kind |-> "items", processed |-> call.processed]>>,
                        <<[kind |-> "section"]>>,
                        <<Fence>>>>
                      \o tree \o <<<<Fence>>>>
           /\ \A i \in 1..Len(lines) :
                (\E j \in 1..Len(lines[i]) : lines[i][j].kind \in {"root", "rule", "entry", "collapsed"})
                    => \A j \in 1..Len(lines[i]) : lines[i][j] # Fence

====
